---- MODULE Spec2Model ----
(***************************************************************************)
(* Model of the self-hosted AWS deployment adapter of genezio              *)
(* (SelfHostedAwsAdapter.deploy and its helpers): artifact staging into a  *)
(* versioned S3 bucket, synthesis of the CloudFormation template, the      *)
(* stack convergence state machine (#updateStack) and endpoint resolution. *)
(* Strings that the code builds or compares character by character are     *)
(* sequences of one-character strings.                                     *)
(***************************************************************************)
EXTENDS Integers, Sequences, FiniteSets, TLC

\* ------------------------------------------------------------------ bounds

\* Number of deploy invocations run one after the other for the same project.
MaxInvocations == 2
\* Number of status polls one bounded wait performs before it times out.
MaxPolls == 2
\* Number of stack changes made by principals other than the adapter.
MaxExternal == 1
\* Length of the names alphanumericString is applied to on its own.
MaxNameLen == 3

\* ------------------------------------------------------------- characters

Digits == {"0", "1", "2", "3", "4", "5", "6", "7", "8", "9"}

LowerCase ==
    {"a", "b", "c", "d", "e", "f", "g", "h", "i", "j", "k", "l", "m",
     "n", "o", "p", "q", "r", "s", "t", "u", "v", "w", "x", "y", "z"}

UpperCase ==
    {"A", "B", "C", "D", "E", "F", "G", "H", "I", "J", "K", "L", "M",
     "N", "O", "P", "Q", "R", "S", "T", "U", "V", "W", "X", "Y", "Z"}

IsAlphanumeric(c) == c \in Digits \cup LowerCase \cup UpperCase

\* Mutant: the replace without the g flag, which strips the first match only.
alphanumericStringFirstOnly(input) ==
    IF \A k \in 1..Len(input) : IsAlphanumeric(input[k]) THEN input
    ELSE LET first == CHOOSE k \in 1..Len(input) :
                          /\ ~IsAlphanumeric(input[k])
                          /\ \A j \in 1..(k - 1) : IsAlphanumeric(input[j])
         IN SubSeq(input, 1, first - 1) \o SubSeq(input, first + 1, Len(input))

\* input.replace(/[^0-9a-zA-Z]/g, "")
alphanumericString(input) == SelectSeq(input, IsAlphanumeric)

\* ------------------------------------------------------------ the inputs

sShop == <<"s", "h", "o", "p">>
sOrders == <<"O", "r", "d", "e", "r", "s">>
sMyClass == <<"M", "y", "-", "C", "l", "a", "s", "s">>
sMyClassPlain == <<"M", "y", "C", "l", "a", "s", "s">>
sInvoice == <<"i", "n", "v", "o", "i", "c", "e">>
sList == <<"l", "i", "s", "t">>
sRun == <<"r", "u", "n">>

MethodInvoice == [name |-> sInvoice, type |-> "http"]
MethodList == [name |-> sList, type |-> "jsonrpc"]
MethodRun == [name |-> sRun, type |-> "cron"]

\* One class of the project configuration (path, language, methods).
ClassConf(path, language, methods) ==
    [path |-> path, language |-> language, methods |-> methods]

\* One GenezioCloudInput: a unit to deploy with its archive on disk.
InputItem(name, filePath, archiveReadable, methods) ==
    [name |-> name, filePath |-> filePath,
     archiveReadable |-> archiveReadable, methods |-> methods]

ProjectShop ==
    [name |-> sShop,
     classes |-> <<ClassConf("orders.ts", ".ts", <<MethodInvoice, MethodList>>)>>,
     input |-> <<InputItem(sOrders, "orders.ts", TRUE, <<MethodInvoice, MethodList>>)>>]

ProjectTwoUnits ==
    [name |-> sShop,
     classes |-> <<ClassConf("orders.ts", ".ts", <<MethodInvoice, MethodList>>),
                   ClassConf("my.dart", ".dart", <<MethodRun>>)>>,
     input |-> <<InputItem(sOrders, "orders.ts", TRUE, <<MethodInvoice, MethodList>>),
                 InputItem(sMyClass, "my.dart", TRUE, <<MethodRun>>)>>]

ProjectBadLanguage ==
    [name |-> sShop,
     classes |-> <<ClassConf("orders.ts", "ts", <<MethodInvoice, MethodList>>)>>,
     input |-> <<InputItem(sOrders, "orders.ts", TRUE, <<MethodInvoice, MethodList>>)>>]

ProjectNoClass ==
    [name |-> sShop,
     classes |-> <<ClassConf("orders.ts", ".ts", <<MethodInvoice, MethodList>>)>>,
     input |-> <<InputItem(sOrders, "other.ts", TRUE, <<MethodInvoice>>)>>]

ProjectNoArchive ==
    [name |-> sShop,
     classes |-> <<ClassConf("orders.ts", ".js", <<MethodInvoice>>)>>,
     input |-> <<InputItem(sOrders, "orders.ts", FALSE, <<MethodInvoice>>)>>]

\* Two units whose distinct names differ in a character that is stripped.
ProjectCollision ==
    [name |-> sShop,
     classes |-> <<ClassConf("my-class.ts", ".ts", <<MethodInvoice, MethodList>>),
                   ClassConf("myclass.js", ".js", <<MethodRun>>)>>,
     input |-> <<InputItem(sMyClass, "my-class.ts", TRUE, <<MethodInvoice, MethodList>>),
                 InputItem(sMyClassPlain, "myclass.js", TRUE, <<MethodRun>>)>>]

\* The second unit has a language that no runtime is known for.
ProjectSecondBad ==
    [name |-> sShop,
     classes |-> <<ClassConf("orders.ts", ".ts", <<MethodInvoice, MethodList>>),
                   ClassConf("my.py", ".py", <<MethodRun>>)>>,
     input |-> <<InputItem(sOrders, "orders.ts", TRUE, <<MethodInvoice, MethodList>>),
                 InputItem(sMyClass, "my.py", TRUE, <<MethodRun>>)>>]

\* A unit whose class has no methods.
ProjectNoMethods ==
    [name |-> sShop,
     classes |-> <<ClassConf("orders.js", ".js", <<>>)>>,
     input |-> <<InputItem(sOrders, "orders.js", TRUE, <<>>)>>]

Projects ==
    {ProjectShop, ProjectTwoUnits, ProjectBadLanguage, ProjectNoClass,
     ProjectNoArchive, ProjectCollision, ProjectSecondBad, ProjectNoMethods}

\* ------------------------------------------------------- pure functions

\* No value (JavaScript undefined).
Undefined == "undefined"

\* projectConfiguration.classes.find((c) => c.path === inputItem.filePath):
\* the first class with that path; found is FALSE when find returns undefined.
FindClass(classes, filePath) ==
    IF \E k \in 1..Len(classes) : classes[k].path = filePath
    THEN LET k == CHOOSE k \in 1..Len(classes) :
                      /\ classes[k].path = filePath
                      /\ \A j \in 1..(k - 1) : classes[j].path # filePath
         IN [found |-> TRUE, language |-> classes[k].language,
             methods |-> classes[k].methods]
    ELSE [found |-> FALSE, language |-> Undefined, methods |-> <<>>]

\* Mutant: the .ts row of the table is missing.
getFunctionRuntimeNoTs(language) ==
    CASE language = ".js" -> "nodejs14.x"
      [] language = ".dart" -> "provided.al2"
      [] OTHER -> "throw"

\* Mutant: a language that is not in the table gets the node runtime.
getFunctionRuntimeDefaultNode(language) ==
    CASE language = ".dart" -> "provided.al2"
      [] OTHER -> "nodejs14.x"

\* #getFunctionRuntime: the runtime of a language, or "throw".
getFunctionRuntime(language) ==
    CASE language \in {".js", ".ts"} -> "nodejs14.x"
      [] language = ".dart" -> "provided.al2"
      [] OTHER -> "throw"

\* A value the storage returns when the object carries no version id
\* (result.VersionId of an unversioned bucket is undefined).
NoVersion == 0

\* --------------------------------------------------- names the code builds

Chars(prefix, rest) == prefix \o rest

pApiGateway == <<"A", "p", "i", "G", "a", "t", "e", "w", "a", "y">>
pLambdaFunction ==
    <<"L", "a", "m", "b", "d", "a", "F", "u", "n", "c", "t", "i", "o", "n">>
pLambdaInvokePermission ==
    <<"L", "a", "m", "b", "d", "a", "I", "n", "v", "o", "k", "e",
      "P", "e", "r", "m", "i", "s", "s", "i", "o", "n">>
pRoute == <<"R", "o", "u", "t", "e">>
pIntegration == <<"I", "n", "t", "e", "g", "r", "a", "t", "i", "o", "n">>
pRole == <<"R", "o", "l", "e">>
sApiStage == <<"A", "p", "i", "S", "t", "a", "g", "e">>
sApiDeployment ==
    <<"A", "p", "i", "D", "e", "p", "l", "o", "y", "m", "e", "n", "t">>

\* `bucket-${region}-${name}`: one bucket per (region, name); the region is fixed.
BucketName(p) == <<"bucket-", "region", "-">> \o p.name
\* `genezio-${projectConfiguration.name}`
StackName(p) == <<"genezio-">> \o p.name
\* `genezio-${projectConfiguration.name}/lambda-${inputItem.name}.zip`
BucketKey(p, item) == <<"genezio-">> \o p.name \o <<"/lambda-">> \o item.name \o <<".zip">>
\* `ApiGateway${alphanumericString(projectConfiguration.name)}`
ApiGatewayResourceName(p) == Chars(pApiGateway, alphanumericString(p.name))

lambdaFunctionResourceName(item) == Chars(pLambdaFunction, alphanumericString(item.name))
invokePermissionResourceName(item) ==
    Chars(pLambdaInvokePermission, alphanumericString(item.name))
routeResourceName(item) == Chars(pRoute, alphanumericString(item.name))
integrationResourceName(item) == Chars(pIntegration, alphanumericString(item.name))
roleResourceName(item) == Chars(pRole, alphanumericString(item.name))

\* `ANY /${inputItem.name}/${m.name}` and `ANY /${inputItem.name}`
MethodRouteKey(item, m) == <<"ANY /">> \o item.name \o <<"/">> \o m.name
ClassRouteKey(item) == <<"ANY /">> \o item.name

\* The message of the error DescribeStacks gives for a stack that is not there.
NotExistMessage(stackName) == <<"Stack with id ">> \o stackName \o <<" does not exist">>

\* ------------------------------------------- GenezioCloudFormationBuilder

\* The content of one resource: its type, the resource ids it references
\* (Ref, Fn::GetAtt, DependsOn), and the properties the resources differ in.
Resource(type, refs, routeKey, runtime, version) ==
    [Type |-> type, Refs |-> refs, DependsOn |-> <<>>, RouteKey |-> routeKey,
     Runtime |-> runtime, S3Key |-> <<>>, S3ObjectVersion |-> version]

\* constructor(apiGatewayResourceName)
NewBuilder(apiGatewayResourceName) ==
    [apiGatewayResourceName |-> apiGatewayResourceName,
     Resources |-> (apiGatewayResourceName :>
                      Resource("AWS::ApiGatewayV2::Api", {}, <<>>, "", NoVersion)),
     resourceIds |-> <<>>,
     Outputs |-> {},
     built |-> FALSE]

\* addResource(name, content): template["Resources"][name] = content; push(name)
addResource(b, name, content) ==
    [b EXCEPT !.Resources = (name :> content) @@ b.Resources,
              !.resourceIds = Append(b.resourceIds, name)]

Range(seq) == {seq[k] : k \in 1..Len(seq)}

\* Mutant: the deployment depends on the stage alone.
buildStageOnly(b) ==
    [b EXCEPT !.Resources =
                  (sApiDeployment :>
                      [Resource("AWS::ApiGatewayV2::Deployment",
                                {b.apiGatewayResourceName}, <<>>, "", NoVersion)
                       EXCEPT !.DependsOn = <<sApiStage>>])
                  @@ (sApiStage :> Resource("AWS::ApiGatewayV2::Stage",
                                            {b.apiGatewayResourceName}, <<>>, "", NoVersion))
                  @@ b.Resources,
              !.Outputs = {"ApiUrl"},
              !.built = TRUE]

\* build(): the stage, the deployment depending on every recorded id, the output.
build(b) ==
    LET withStage ==
            (sApiStage :> Resource("AWS::ApiGatewayV2::Stage",
                                   {b.apiGatewayResourceName}, <<>>, "", NoVersion))
            @@ b.Resources
        withDeployment ==
            (sApiDeployment :>
                [Resource("AWS::ApiGatewayV2::Deployment",
                          {b.apiGatewayResourceName}, <<>>, "", NoVersion)
                 EXCEPT !.DependsOn = Append(b.resourceIds, sApiStage)])
            @@ withStage
    IN [b EXCEPT !.Resources = withDeployment,
                 !.Outputs = {"ApiUrl"},
                 !.built = TRUE]

\* The http methods of the class configuration, in order (classConfiguration?.methods
\* .filter((m) => m.type === "http")); none when there is no class configuration.
HttpMethods(classConfiguration) ==
    IF ~classConfiguration.found THEN <<>>
    ELSE SelectSeq(classConfiguration.methods, LAMBDA m : m.type = "http")

RECURSIVE AddMethodRoutes(_, _, _, _)
\* forEach over the http methods: one route `Route<unit><method>` each.
AddMethodRoutes(b, api, item, methods) ==
    IF methods = <<>> THEN b
    ELSE AddMethodRoutes(
             addResource(b, routeResourceName(item) \o Head(methods).name,
                         Resource("AWS::ApiGatewayV2::Route",
                                  {api, integrationResourceName(item)},
                                  MethodRouteKey(item, Head(methods)), "", NoVersion)),
             api, item, Tail(methods))

\* Mutant: routes are made for the http methods only; there is no catch-all.
SynthesizeRoutingMethodsOnly(b, item, classConfiguration) ==
    LET api == b.apiGatewayResourceName
        b1 == addResource(b, invokePermissionResourceName(item),
                          Resource("AWS::Lambda::Permission",
                                   {lambdaFunctionResourceName(item), api},
                                   <<>>, "", NoVersion))
        b2 == AddMethodRoutes(b1, api, item, HttpMethods(classConfiguration))
    IN addResource(b2, integrationResourceName(item),
                   Resource("AWS::ApiGatewayV2::Integration",
                            {api, lambdaFunctionResourceName(item)},
                            <<>>, "", NoVersion))

\* Lines 298-403 of one loop iteration: the invoke permission, the routes of
\* the http methods, the catch-all route and the integration.
SynthesizeRouting(b, item, classConfiguration) ==
    LET api == b.apiGatewayResourceName
        b1 == addResource(b, invokePermissionResourceName(item),
                          Resource("AWS::Lambda::Permission",
                                   {lambdaFunctionResourceName(item), api},
                                   <<>>, "", NoVersion))
        b2 == AddMethodRoutes(b1, api, item, HttpMethods(classConfiguration))
        b3 == addResource(b2, routeResourceName(item),
                          Resource("AWS::ApiGatewayV2::Route",
                                   {api, integrationResourceName(item)},
                                   ClassRouteKey(item), "", NoVersion))
    IN addResource(b3, integrationResourceName(item),
                   Resource("AWS::ApiGatewayV2::Integration",
                            {api, lambdaFunctionResourceName(item)},
                            <<>>, "", NoVersion))

\* Mutant: the execution role is not added.
SynthesizeFunctionNoRole(b, item, bucketKey, runtime, version) ==
    addResource(b, lambdaFunctionResourceName(item),
                [Resource("AWS::Lambda::Function", {roleResourceName(item)},
                          <<>>, runtime, version)
                 EXCEPT !.S3Key = bucketKey])

\* Lines 404-457 of one loop iteration: the function, pinned to the version
\* that getLatestObjectVersion returned, and its execution role.
SynthesizeFunction(b, item, bucketKey, runtime, version) ==
    addResource(
        addResource(b, lambdaFunctionResourceName(item),
                    [Resource("AWS::Lambda::Function", {roleResourceName(item)},
                              <<>>, runtime, version)
                     EXCEPT !.S3Key = bucketKey]),
        roleResourceName(item),
        Resource("AWS::IAM::Role", {}, <<>>, "", NoVersion))

\* --------------------------------------------------------- remote system

\* The statuses of the remote stack; ABSENT when there is no such stack.
InProgress == {"CREATE_IN_PROGRESS", "UPDATE_IN_PROGRESS", "DELETE_IN_PROGRESS"}

StackStatuses ==
    {"ABSENT", "CREATE_COMPLETE", "ROLLBACK_COMPLETE", "UPDATE_COMPLETE",
     "UPDATE_ROLLBACK_COMPLETE", "DELETE_FAILED"} \cup InProgress

\* A response of DescribeStacks: an error with a message, or a Stacks list
\* (count 0 or 1, with the status of the first stack), or no Stacks field.
ErrorResponse(message) ==
    [kind |-> "error", count |-> 0, status |-> Undefined, message |-> message]
StacksResponse(count, status) ==
    [kind |-> "stacks", count |-> count, status |-> status, message |-> <<>>]
NoStacksResponse ==
    [kind |-> "noStacks", count |-> 0, status |-> Undefined, message |-> <<>>]

\* What DescribeStacks may answer for a stack of the given status.
DescribeResponses(status, stackName) ==
    {ErrorResponse(<<"Rate exceeded">>), NoStacksResponse}
    \cup (IF status = "ABSENT"
          THEN {ErrorResponse(NotExistMessage(stackName)), StacksResponse(0, Undefined)}
          ELSE {StacksResponse(1, status)})

\* The stack makes progress on its own: an operation in progress ends.
ProgressOf(status) ==
    CASE status = "CREATE_IN_PROGRESS" -> {"CREATE_COMPLETE", "ROLLBACK_COMPLETE"}
      [] status = "UPDATE_IN_PROGRESS" -> {"UPDATE_COMPLETE", "UPDATE_ROLLBACK_COMPLETE"}
      [] status = "DELETE_IN_PROGRESS" -> {"ABSENT", "DELETE_FAILED"}
      [] OTHER -> {}

\* What another principal of the account may start on the stack.
ExternalOf(status) ==
    CASE status = "ABSENT" -> {"CREATE_IN_PROGRESS"}
      [] status \in {"CREATE_COMPLETE", "UPDATE_COMPLETE", "UPDATE_ROLLBACK_COMPLETE"}
           -> {"UPDATE_IN_PROGRESS", "DELETE_IN_PROGRESS"}
      [] status \in {"ROLLBACK_COMPLETE", "DELETE_FAILED"} -> {"DELETE_IN_PROGRESS"}
      [] OTHER -> {}

\* The shapes of the Outputs of the stack that the final describe returns.
OutputShapes == {"ApiUrl", "noOutputs", "emptyOutputs", "otherKey", "noValue"}

\* ------------------------------------------------- decisions of the code

\* Mutant: the empty stack list is not recognised as an absent stack.
checkIfStackExistsNoEmptyCheck(resp, stackName) ==
    CASE resp.kind = "stacks" ->
            [threw |-> FALSE, exists |-> TRUE, status |-> resp.status]
      [] resp.kind = "noStacks" ->
            [threw |-> FALSE, exists |-> TRUE, status |-> Undefined]
      [] resp.kind = "error" /\ resp.message = NotExistMessage(stackName) ->
            [threw |-> FALSE, exists |-> FALSE, status |-> Undefined]
      [] OTHER -> [threw |-> TRUE, exists |-> FALSE, status |-> Undefined]

\* Mutant: the catch maps every error of the describe call to an absent stack.
checkIfStackExistsCatchAll(resp, stackName) ==
    CASE resp.kind = "stacks" /\ resp.count = 0 ->
            [threw |-> FALSE, exists |-> FALSE, status |-> Undefined]
      [] resp.kind = "stacks" /\ resp.count # 0 ->
            [threw |-> FALSE, exists |-> TRUE, status |-> resp.status]
      [] resp.kind = "noStacks" ->
            [threw |-> FALSE, exists |-> TRUE, status |-> Undefined]
      [] OTHER -> [threw |-> FALSE, exists |-> FALSE, status |-> Undefined]

\* #checkIfStackExists: the .then and the .catch of the describe call.
checkIfStackExists(resp, stackName) ==
    CASE resp.kind = "stacks" /\ resp.count = 0 ->
            [threw |-> FALSE, exists |-> FALSE, status |-> Undefined]
      [] resp.kind = "stacks" /\ resp.count # 0 ->
            [threw |-> FALSE, exists |-> TRUE, status |-> resp.status]
      [] resp.kind = "noStacks" ->
            [threw |-> FALSE, exists |-> TRUE, status |-> Undefined]
      [] resp.kind = "error" /\ resp.message = NotExistMessage(stackName) ->
            [threw |-> FALSE, exists |-> FALSE, status |-> Undefined]
      [] OTHER -> [threw |-> TRUE, exists |-> FALSE, status |-> Undefined]

\* Mutant: a stack whose creation is still in progress is deleted too.
StackBranchDeleteInProgress(exists, status) ==
    IF ~exists THEN "absent"
    ELSE IF status \in {"ROLLBACK_COMPLETE", "CREATE_IN_PROGRESS"} THEN "rollback"
    ELSE "update"

\* Mutant: a stack that is CREATE_COMPLETE is deleted and created again.
StackBranchRecreateComplete(exists, status) ==
    IF ~exists THEN "absent"
    ELSE IF status \in {"ROLLBACK_COMPLETE", "CREATE_COMPLETE"} THEN "rollback"
    ELSE "update"

\* Mutant: every rollback status is recovered from by delete and create.
StackBranchAnyRollback(exists, status) ==
    IF ~exists THEN "absent"
    ELSE IF status \in {"ROLLBACK_COMPLETE", "UPDATE_ROLLBACK_COMPLETE"} THEN "rollback"
    ELSE "update"

\* #updateStack: the branch taken on the result of the probe.
StackBranch(exists, status) ==
    IF ~exists THEN "absent"
    ELSE IF exists /\ status = "ROLLBACK_COMPLETE" THEN "rollback"
    ELSE "update"

\* #updateStack: the first call of each branch.
FirstCall(br) ==
    CASE br = "absent" -> "createStack"
      [] br = "rollback" -> "deleteStack"
      [] OTHER -> "updateStack"

\* Mutant: a wait that timed out returns instead of throwing.
AfterAwaitTimeoutReturns(res, next) == IF res \in {"ok", "timeout"} THEN next ELSE "throw"

\* Mutant: the rejection of an awaited call is swallowed.
AfterAwaitSwallow(res, next) == next

\* An awaited call that rejects throws out of deploy; otherwise the next
\* statement runs.
AfterAwait(res, next) == IF res = "ok" THEN next ELSE "throw"

\* Mutant: the create that follows the delete of the rollback branch is missing.
AfterWaitNoRecreate(waiter) == "describeFinal"

\* #updateStack: what follows each bounded wait that returned.
AfterWait(waiter) ==
    CASE waiter = "waitDelete" -> "createStack"
      [] OTHER -> "describeFinal"

\* waitUntilStack{Create,Update,Delete}Complete on one poll of the status.
WaiterState(waiter, status) ==
    CASE waiter = "waitCreate" ->
            (IF status = "CREATE_COMPLETE" THEN "SUCCESS"
             ELSE IF status = "CREATE_IN_PROGRESS" THEN "RETRY" ELSE "FAILURE")
      [] waiter = "waitUpdate" ->
            (IF status = "UPDATE_COMPLETE" THEN "SUCCESS"
             ELSE IF status = "UPDATE_IN_PROGRESS" THEN "RETRY" ELSE "FAILURE")
      [] OTHER ->
            (IF status = "ABSENT" THEN "SUCCESS"
             ELSE IF status = "DELETE_IN_PROGRESS" THEN "RETRY" ELSE "FAILURE")

\* Mutant: the final check only looks for a stack, not at its status.
FinalCheckNoStatus(resp) == ~(resp.kind = "noStacks" \/ resp.count = 0)

\* deploy, line 473: the condition under which "Stack update failed" is NOT thrown.
FinalCheck(resp) ==
    ~(\/ resp.kind = "noStacks"
      \/ resp.count = 0
      \/ (resp.status # "UPDATE_COMPLETE" /\ resp.status # "CREATE_COMPLETE"))

\* deploy, line 475: the text of the error of the final check, as the pieces
\* it is made of; it is one literal.
StackUpdateFailedMessage == <<"Stack update failed">>

\* deploy, line 259: the credentials check that follows the bucket probe.
AfterHeadBucket(hasCredentials, exists) ==
    IF ~hasCredentials THEN "throw"
    ELSE IF ~exists THEN "createBucket" ELSE "loop"

\* Mutant: every method gets a URL of its own, whatever its trigger type.
getFunctionUrlAlwaysMethod(baseUrl, methodType, className, methodName) ==
    <<baseUrl, "/">> \o className \o <<"/">> \o methodName

\* getFunctionUrl
getFunctionUrl(baseUrl, methodType, className, methodName) ==
    IF methodType = "http"
    THEN <<baseUrl, "/">> \o className \o <<"/">> \o methodName
    ELSE <<baseUrl, "/">> \o className

\* deploy, line 478: Outputs![0].OutputValue! of the final stack state;
\* "throw" when reading it raises a TypeError.
ApiGatewayUrl(shape) ==
    CASE shape = "ApiUrl" -> "https://abc123.example/prod"
      [] shape = "otherKey" -> "other-output-value"
      [] shape = "noValue" -> Undefined
      [] OTHER -> "throw"

\* Mutant: the resolver asks the remote system for the API of every unit.
ResolverCallsPerUnit(input) == [k \in 1..Len(input) |-> [op |-> "getApi", res |-> "ok"]]

\* deploy, lines 478-494: the requests sent while the result is built; there
\* is no await and no client call in these lines.
ResolverCalls(input) == <<>>

\* deploy, lines 479-490: one entry per input item.
Classes(input, apiGatewayUrl) ==
    [k \in 1..Len(input) |->
        [className |-> input[k].name,
         methods |-> [j \in 1..Len(input[k].methods) |->
                         [name |-> input[k].methods[j].name,
                          type |-> input[k].methods[j].type,
                          functionUrl |-> getFunctionUrl(apiGatewayUrl,
                                              input[k].methods[j].type,
                                              input[k].name,
                                              input[k].methods[j].name)]],
         functionUrl |-> <<apiGatewayUrl, "/">> \o input[k].name]]

\* ------------------------------------------------------------------ state

VARIABLES
    project,        \* the project configuration and the input of every invocation
    bucket,         \* remote: the project's bucket [exists, versioning]
    objects,        \* remote: per bucket key, the object stored last
    nextVersionId,  \* remote: the version id the storage assigns next
    stack,          \* remote: the status of the project's stack
    externalLeft,   \* stack changes other principals may still make
    writes,         \* history: every object write, with the versioning it met
    inv,            \* number of the deploy invocation
    credentials,    \* whether AWS.config.credentials is set in this invocation
    pc,             \* the awaited call deploy is at
    outcome,        \* "none", "running", "returned" or "failed"
    error,          \* the error deploy threw
    ops,            \* the calls this invocation issued, with their results
    bucketExists,   \* deploy's local bucketExists
    idx,            \* the position of the for loop in input
    builder,        \* cloudFormationTemplate
    probe,          \* { exists, status } of #checkIfStackExists, with the response
    branch,         \* the branch #updateStack took
    polls,          \* polls made by the current bounded wait
    uploaded,       \* history: per input item, the version id its upload stored
    finalResp,      \* the response of the final DescribeStacks
    finalOutputs,   \* the shape of Stacks[0].Outputs in that response
    output,         \* the GenezioCloudOutput returned
    timedOutBefore, \* history: an earlier invocation failed by a wait timing out
    conv,           \* two interleaved #updateStack calls on one stack name
    sanitized,      \* one application of alphanumericString
    cmd,            \* one run of deployCommand
    req,            \* one call of deployRequest
    del             \* one call of deleteProject

remoteVars == <<bucket, objects, nextVersionId, stack, externalLeft, writes>>
localVars == <<inv, credentials, pc, outcome, error, ops, bucketExists, idx,
               builder, probe, branch, polls, uploaded, finalResp, finalOutputs, output>>
\* The state of the specifications of single functions and of the
\* interleaved convergence; deploy does not touch it.
auxVars == <<conv, sanitized, cmd, req, del>>
vars == <<project, remoteVars, localVars, timedOutBefore, auxVars>>

Keys(p) == {BucketKey(p, p.input[k]) : k \in 1..Len(p.input)}

NoResp == [kind |-> "none", count |-> 0, status |-> Undefined, message |-> <<>>]
NoProbe == [threw |-> FALSE, exists |-> FALSE, status |-> Undefined, resp |-> NoResp]
NoObject == [stored |-> FALSE, versionId |-> NoVersion]

Op(o, r) == [op |-> o, res |-> r]

\* The two invocations of the interleaved convergence.
Procs == {1, 2}
NoConv == [i \in Procs |-> [pc |-> "idle", resp |-> NoResp, calls |-> <<>>, polls |-> 0]]
NoSanitized == [input |-> <<>>, output |-> <<>>, again |-> <<>>, applied |-> FALSE]
NoCmd == [pc |-> "idle"]
NoReq == [pc |-> "idle"]
NoDel == [pc |-> "idle"]

\* The last call of the invocation was a bounded wait that timed out.
LastTimedOut == ops # <<>> /\ ops[Len(ops)].res = "timeout"

\* The state before the first invocation of deploy.
DeployInit ==
    /\ project \in Projects
    /\ bucket \in {[exists |-> FALSE, versioning |-> FALSE],
                   [exists |-> TRUE, versioning |-> TRUE]}
    /\ objects = [k \in Keys(project) |-> NoObject]
    /\ nextVersionId = 1
    /\ stack \in StackStatuses
    /\ externalLeft = MaxExternal
    /\ writes = {}
    /\ inv = 0
    /\ credentials = FALSE
    /\ pc = "idle"
    /\ outcome = "none"
    /\ error = ""
    /\ ops = <<>>
    /\ bucketExists = FALSE
    /\ idx = 1
    /\ builder = NewBuilder(ApiGatewayResourceName(project))
    /\ probe = NoProbe
    /\ branch = "none"
    /\ polls = 0
    /\ uploaded = [k \in 1..Len(project.input) |-> NoVersion]
    /\ finalResp = NoResp
    /\ finalOutputs = "none"
    /\ output = <<>>
    /\ timedOutBefore = FALSE

Init ==
    /\ DeployInit
    /\ conv = NoConv
    /\ sanitized = NoSanitized
    /\ cmd = NoCmd
    /\ req = NoReq
    /\ del = NoDel

\* deploy throws: the invocation ends with the error.
Throw(msg) ==
    /\ pc' = "done"
    /\ outcome' = "failed"
    /\ error' = msg

Goto(next) ==
    /\ pc' = next
    /\ UNCHANGED <<outcome, error>>

\* Mutant: the loop over the input is skipped; the template is built at once.
LoopEntrySkipStaging ==
    /\ idx' = 1
    /\ builder' = build(NewBuilder(ApiGatewayResourceName(project)))
    /\ Goto("describeStacks")

\* deploy, lines 282-285 and 460-464: the builder is made before the loop; with
\* no input (left) the template is built at once and #updateStack is entered.
LoopEntry ==
    /\ idx' = 1
    /\ IF Len(project.input) = 0
       THEN /\ builder' = build(NewBuilder(ApiGatewayResourceName(project)))
            /\ Goto("describeStacks")
       ELSE /\ builder' = NewBuilder(ApiGatewayResourceName(project))
            /\ Goto("putObject")

\* ---------------------------------------------------------------- actions

\* A deploy invocation starts (lines 252-256).
Deploy ==
    /\ pc \in {"idle", "done"}
    /\ inv < MaxInvocations
    /\ inv' = inv + 1
    /\ credentials' \in BOOLEAN
    /\ pc' = "headBucket"
    /\ outcome' = "running"
    /\ error' = ""
    /\ ops' = <<>>
    /\ bucketExists' = FALSE
    /\ idx' = 1
    /\ builder' = NewBuilder(ApiGatewayResourceName(project))
    /\ probe' = NoProbe
    /\ branch' = "none"
    /\ polls' = 0
    /\ uploaded' = [k \in 1..Len(project.input) |-> NoVersion]
    /\ finalResp' = NoResp
    /\ finalOutputs' = "none"
    /\ output' = <<>>
    /\ timedOutBefore' = (timedOutBefore \/ LastTimedOut)
    /\ UNCHANGED <<project, auxVars, remoteVars>>

\* #bucketForProjectExists (line 257), then the credentials check (259-264).
HeadBucket ==
    /\ pc = "headBucket"
    /\ \E err \in BOOLEAN :
          /\ ~err => bucket.exists
          /\ bucketExists' = ~err
          /\ ops' = Append(ops, Op("headBucket", IF err THEN "error" ELSE "ok"))
          /\ LET next == AfterHeadBucket(credentials, ~err)
             IN CASE next = "throw" ->
                       /\ Throw("AWS credentials not found")
                       /\ UNCHANGED <<idx, builder>>
                  [] next = "createBucket" ->
                       /\ Goto("createBucket")
                       /\ UNCHANGED <<idx, builder>>
                  [] OTHER -> LoopEntry
    /\ UNCHANGED <<project, auxVars, timedOutBefore, remoteVars, inv, credentials, probe, branch, polls,
                   uploaded, finalResp, finalOutputs, output>>

\* CreateBucketCommand (lines 266-272).
CreateBucket ==
    /\ pc = "createBucket"
    /\ \E res \in {"ok", "error"} :
          /\ ops' = Append(ops, Op("createBucket", res))
          /\ bucket' = IF res = "ok" THEN [bucket EXCEPT !.exists = TRUE] ELSE bucket
          /\ IF AfterAwait(res, "putBucketVersioning") = "throw"
             THEN Throw("CreateBucket failed")
             ELSE Goto("putBucketVersioning")
    /\ UNCHANGED <<project, auxVars, timedOutBefore, objects, nextVersionId, stack, externalLeft, writes,
                   inv, credentials, bucketExists, idx, builder, probe, branch,
                   polls, uploaded, finalResp, finalOutputs, output>>

\* PutBucketVersioningCommand (lines 274-279), then the loop is entered.
PutBucketVersioning ==
    /\ pc = "putBucketVersioning"
    /\ \E res \in {"ok", "error"} :
          /\ res = "ok" => bucket.exists
          /\ ops' = Append(ops, Op("putBucketVersioning", res))
          /\ bucket' = IF res = "ok" THEN [bucket EXCEPT !.versioning = TRUE] ELSE bucket
          /\ IF AfterAwait(res, "loop") = "throw"
             THEN /\ Throw("PutBucketVersioning failed")
                  /\ UNCHANGED <<idx, builder>>
             ELSE LoopEntry
    /\ UNCHANGED <<project, auxVars, timedOutBefore, objects, nextVersionId, stack, externalLeft, writes,
                   inv, credentials, bucketExists, probe, branch, polls,
                   uploaded, finalResp, finalOutputs, output>>

\* Mutant: a unit without class configuration gets the node runtime.
RuntimeOfOptional(classConfiguration) ==
    IF ~classConfiguration.found THEN "nodejs14.x"
    ELSE getFunctionRuntime(classConfiguration.language)

\* deploy, line 405: this.#getFunctionRuntime(classConfiguration!.language);
\* reading .language of no class configuration raises a TypeError.
RuntimeOf(classConfiguration) ==
    IF ~classConfiguration.found THEN "throw"
    ELSE getFunctionRuntime(classConfiguration.language)

\* The version id the storage gives an object written now.
StoredVersion == IF bucket.versioning THEN nextVersionId ELSE NoVersion

\* #uploadZipToS3 of the current input item (line 296), then lines 298-405:
\* the permission, the routes and the integration are added and the runtime
\* is looked up before the version of the object is asked for.
PutObject ==
    /\ pc = "putObject"
    /\ LET item == project.input[idx]
           key == BucketKey(project, item)
           classConfiguration == FindClass(project.classes, item.filePath)
       IN IF ~item.archiveReadable
          THEN \* fs.readFileSync throws: no request is sent
               /\ Throw("ENOENT")
               /\ UNCHANGED <<ops, remoteVars, builder, uploaded>>
          ELSE \E res \in {"ok", "error"} :
                  /\ res = "ok" => bucket.exists
                  /\ ops' = Append(ops, Op("putObject", res))
                  /\ IF AfterAwait(res, "synthesize") = "throw"
                     THEN /\ Throw("PutObject failed")
                          /\ UNCHANGED <<remoteVars, builder, uploaded>>
                     ELSE /\ objects' = [objects EXCEPT ![key] =
                                 [stored |-> TRUE, versionId |-> StoredVersion]]
                          /\ nextVersionId' =
                                 IF bucket.versioning THEN nextVersionId + 1
                                 ELSE nextVersionId
                          /\ writes' = writes \cup
                                 {[key |-> key, versioned |-> bucket.versioning,
                                   inv |-> inv]}
                          /\ uploaded' = [uploaded EXCEPT ![idx] = StoredVersion]
                          /\ builder' = SynthesizeRouting(builder, item, classConfiguration)
                          /\ IF RuntimeOf(classConfiguration) = "throw"
                             THEN Throw(IF classConfiguration.found
                                        THEN "Unsupported language"
                                        ELSE "TypeError")
                             ELSE Goto("headObject")
                          /\ UNCHANGED <<bucket, stack, externalLeft>>
    /\ UNCHANGED <<project, auxVars, timedOutBefore, inv, credentials, bucketExists, idx, probe, branch,
                   polls, finalResp, finalOutputs, output>>

\* getLatestObjectVersion (line 419), then lines 406-458: the function pinned
\* to the returned version and the role are added and the loop goes on; after
\* the last item the template is built (460) and #updateStack is entered.
HeadObject ==
    /\ pc = "headObject"
    /\ LET item == project.input[idx]
           key == BucketKey(project, item)
           runtime == RuntimeOf(FindClass(project.classes, item.filePath))
       IN \E res \in {"ok", "error"} :
             /\ res = "ok" => objects[key].stored
             /\ ops' = Append(ops, Op("headObject", res))
             /\ IF AfterAwait(res, "synthesize") = "throw"
                THEN /\ Throw("HeadObject failed")
                     /\ UNCHANGED <<idx, builder>>
                ELSE LET b == SynthesizeFunction(builder, item, key, runtime,
                                                 objects[key].versionId)
                     IN /\ idx' = idx + 1
                        /\ IF idx = Len(project.input)
                           THEN /\ builder' = build(b)
                                /\ Goto("describeStacks")
                           ELSE /\ builder' = b
                                /\ Goto("putObject")
    /\ UNCHANGED <<project, auxVars, timedOutBefore, remoteVars, inv, credentials, bucketExists, probe,
                   branch, polls, uploaded, finalResp, finalOutputs, output>>

\* #updateStack, line 202: the probe of the stack and the choice of the branch.
DescribeStacks ==
    /\ pc = "describeStacks"
    /\ \E resp \in DescribeResponses(stack, StackName(project)) :
          LET r == checkIfStackExists(resp, StackName(project))
          IN /\ ops' = Append(ops, Op("describeStacks",
                                      IF resp.kind = "error" THEN "error" ELSE "ok"))
             /\ probe' = [threw |-> r.threw, exists |-> r.exists,
                          status |-> r.status, resp |-> resp]
             /\ IF r.threw
                THEN /\ Throw("DescribeStacks failed")
                     /\ UNCHANGED branch
                ELSE /\ branch' = StackBranch(r.exists, r.status)
                     /\ Goto(FirstCall(StackBranch(r.exists, r.status)))
    /\ UNCHANGED <<project, auxVars, timedOutBefore, remoteVars, inv, credentials, bucketExists, idx,
                   builder, polls, uploaded, finalResp, finalOutputs, output>>

\* CreateStackCommand (lines 205-209 and 226-230).
CreateStack ==
    /\ pc = "createStack"
    /\ \E res \in {"ok", "error"} :
          /\ res = "ok" => stack = "ABSENT"
          /\ ops' = Append(ops, Op("createStack", res))
          /\ stack' = IF res = "ok" THEN "CREATE_IN_PROGRESS" ELSE stack
          /\ IF AfterAwait(res, "waitCreate") = "throw"
             THEN Throw("CreateStack failed")
             ELSE Goto("waitCreate")
    /\ polls' = 0
    /\ UNCHANGED <<project, auxVars, timedOutBefore, bucket, objects, nextVersionId, externalLeft, writes,
                   inv, credentials, bucketExists, idx, builder, probe, branch,
                   uploaded, finalResp, finalOutputs, output>>

\* DeleteStackCommand (lines 217-219).
DeleteStack ==
    /\ pc = "deleteStack"
    /\ \E res \in {"ok", "error"} :
          /\ ops' = Append(ops, Op("deleteStack", res))
          /\ stack' = IF res = "ok" /\ stack # "ABSENT"
                      THEN "DELETE_IN_PROGRESS" ELSE stack
          /\ IF AfterAwait(res, "waitDelete") = "throw"
             THEN Throw("DeleteStack failed")
             ELSE Goto("waitDelete")
    /\ polls' = 0
    /\ UNCHANGED <<project, auxVars, timedOutBefore, bucket, objects, nextVersionId, externalLeft, writes,
                   inv, credentials, bucketExists, idx, builder, probe, branch,
                   uploaded, finalResp, finalOutputs, output>>

\* UpdateStackCommand (lines 238-242).
UpdateStack ==
    /\ pc = "updateStack"
    /\ \E res \in {"ok", "error"} :
          /\ res = "ok" => stack \in {"CREATE_COMPLETE", "UPDATE_COMPLETE",
                                      "UPDATE_ROLLBACK_COMPLETE"}
          /\ ops' = Append(ops, Op("updateStack", res))
          /\ stack' = IF res = "ok" THEN "UPDATE_IN_PROGRESS" ELSE stack
          /\ IF AfterAwait(res, "waitUpdate") = "throw"
             THEN Throw("UpdateStack failed")
             ELSE Goto("waitUpdate")
    /\ polls' = 0
    /\ UNCHANGED <<project, auxVars, timedOutBefore, bucket, objects, nextVersionId, externalLeft, writes,
                   inv, credentials, bucketExists, idx, builder, probe, branch,
                   uploaded, finalResp, finalOutputs, output>>

\* Mutant: the wait has no maximum wait time.
WaitResultNoTimeout(state, polled) ==
    CASE state = "SUCCESS" -> "ok"
      [] state = "FAILURE" -> "failure"
      [] OTHER -> "retry"

\* What a bounded wait does with the result of its waiter: it returns on
\* success and throws on a failure status or when the maximum wait is over.
WaitResult(state, polled) ==
    CASE state = "SUCCESS" -> "ok"
      [] state = "FAILURE" -> "failure"
      [] polled >= MaxPolls -> "timeout"
      [] OTHER -> "retry"

\* One poll of waitUntilStack...Complete (maxWaitTime 360).
Wait(waiter) ==
    /\ pc = waiter
    /\ LET res == WaitResult(WaiterState(waiter, stack), polls + 1)
       IN IF res = "retry"
          THEN /\ polls' = IF polls < MaxPolls THEN polls + 1 ELSE polls
               /\ UNCHANGED <<pc, outcome, error, ops>>
          ELSE /\ polls' = 0
               /\ ops' = Append(ops, Op(waiter, res))
               /\ IF AfterAwait(res, AfterWait(waiter)) = "throw"
                  THEN Throw("wait failed")
                  ELSE Goto(AfterWait(waiter))
    /\ UNCHANGED <<project, auxVars, timedOutBefore, remoteVars, inv, credentials, bucketExists, idx,
                   builder, probe, branch, uploaded, finalResp, finalOutputs, output>>

WaitCreate == Wait("waitCreate")
WaitDelete == Wait("waitDelete")
WaitUpdate == Wait("waitUpdate")

\* The final DescribeStacksCommand (467-469), the status check (473-476) and
\* the resolution of the endpoints (478-494).
DescribeFinal ==
    /\ pc = "describeFinal"
    /\ \E resp \in DescribeResponses(stack, StackName(project)), shape \in OutputShapes :
          /\ ops' = Append(ops, Op("describeFinal",
                                   IF resp.kind = "error" THEN "error" ELSE "ok"))
                    \o (IF resp.kind # "error" /\ FinalCheck(resp)
                           /\ ApiGatewayUrl(shape) # "throw"
                        THEN ResolverCalls(project.input) ELSE <<>>)
          /\ finalResp' = resp
          /\ finalOutputs' = IF resp.kind = "stacks" /\ resp.count = 1 THEN shape ELSE "none"
          /\ pc' = "done"
          /\ IF resp.kind = "error"
             THEN /\ outcome' = "failed"
                  /\ error' = "DescribeStacks failed"
                  /\ output' = <<>>
             ELSE IF ~FinalCheck(resp)
             THEN /\ outcome' = "failed"
                  /\ error' = "Stack update failed"
                  /\ output' = <<>>
             ELSE IF ApiGatewayUrl(shape) = "throw"
             THEN /\ outcome' = "failed"
                  /\ error' = "TypeError"
                  /\ output' = <<>>
             ELSE /\ outcome' = "returned"
                  /\ error' = ""
                  /\ output' = Classes(project.input, ApiGatewayUrl(shape))
    /\ UNCHANGED <<project, auxVars, timedOutBefore, remoteVars, inv, credentials, bucketExists, idx,
                   builder, probe, branch, polls, uploaded>>

\* The remote system ends an operation that is in progress.
RemoteProgress ==
    /\ \E s \in ProgressOf(stack) : stack' = s
    /\ UNCHANGED <<project, auxVars, timedOutBefore, bucket, objects, nextVersionId, externalLeft, writes,
                   localVars>>

\* Another principal of the account starts an operation on the stack.
ExternalChange ==
    /\ externalLeft > 0
    /\ externalLeft' = externalLeft - 1
    /\ \E s \in ExternalOf(stack) : stack' = s
    /\ UNCHANGED <<project, auxVars, timedOutBefore, bucket, objects, nextVersionId, writes, localVars>>

Next ==
    \/ Deploy
    \/ HeadBucket
    \/ CreateBucket
    \/ PutBucketVersioning
    \/ PutObject
    \/ HeadObject
    \/ DescribeStacks
    \/ CreateStack
    \/ DeleteStack
    \/ UpdateStack
    \/ WaitCreate
    \/ WaitDelete
    \/ WaitUpdate
    \/ DescribeFinal
    \/ RemoteProgress
    \/ ExternalChange

Spec == Init /\ [][Next]_vars

\* The steps of a running invocation: the continuation of each awaited call.
DeploySteps ==
    \/ HeadBucket
    \/ CreateBucket
    \/ PutBucketVersioning
    \/ PutObject
    \/ HeadObject
    \/ DescribeStacks
    \/ CreateStack
    \/ DeleteStack
    \/ UpdateStack
    \/ WaitCreate
    \/ WaitDelete
    \/ WaitUpdate
    \/ DescribeFinal

\* Every request is answered and every waiter polls again or returns, and the
\* event loop then resumes deploy; the remote system and the caller are free.
LiveSpec == Init /\ [][Next]_vars /\ WF_vars(DeploySteps)

\* ------------------------------------------- two interleaved #updateStack

\* Everything but the stack and the two invocations.
raceFrame == <<project, bucket, objects, nextVersionId, externalLeft, writes,
               localVars, timedOutBefore, sanitized, cmd, req, del>>

\* Two callers enter #updateStack for the stack of one project, unserialized.
RaceInit ==
    /\ DeployInit
    /\ project = ProjectShop
    /\ bucket.exists
    /\ conv = [i \in Procs |->
                 [pc |-> "describeStacks", resp |-> NoResp, calls |-> <<>>, polls |-> 0]]
    /\ sanitized = NoSanitized
    /\ cmd = NoCmd
    /\ req = NoReq
    /\ del = NoDel

\* One call of an invocation: its result, the status of the stack it met
\* and where the other invocation was when it was issued.
RaceCall(i, o, r) == [op |-> o, res |-> r, met |-> stack, other |-> conv[3 - i].pc]

RacePc(next) ==
    CASE next = "throw" -> "failed"
      [] next = "describeFinal" -> "returned"
      [] OTHER -> next

\* #updateStack, line 202, of invocation i.
RaceProbe(i) ==
    /\ conv[i].pc = "describeStacks"
    /\ \E resp \in DescribeResponses(stack, StackName(project)) :
          LET r == checkIfStackExists(resp, StackName(project))
          IN conv' = [conv EXCEPT ![i].resp = resp,
                                  ![i].pc = IF r.threw THEN "failed"
                                            ELSE FirstCall(StackBranch(r.exists, r.status))]
    /\ UNCHANGED <<stack, raceFrame>>

\* Whether the remote system accepts a mutation of a stack in that status,
\* and the status the accepted mutation leaves.
Accepts(call, status) ==
    CASE call = "createStack" -> status = "ABSENT"
      [] call = "updateStack" ->
             status \in {"CREATE_COMPLETE", "UPDATE_COMPLETE", "UPDATE_ROLLBACK_COMPLETE"}
      [] OTHER -> TRUE

Started(call, status) ==
    CASE call = "createStack" -> "CREATE_IN_PROGRESS"
      [] call = "updateStack" -> "UPDATE_IN_PROGRESS"
      [] OTHER -> IF status # "ABSENT" THEN "DELETE_IN_PROGRESS" ELSE status

WaiterOf(call) ==
    CASE call = "createStack" -> "waitCreate"
      [] call = "updateStack" -> "waitUpdate"
      [] OTHER -> "waitDelete"

\* Invocation i sends the mutation it is at; nothing is checked or taken
\* before the send.
RaceMutate(i, call) ==
    /\ conv[i].pc = call
    /\ \E res \in {"ok", "error"} :
          /\ res = "ok" => Accepts(call, stack)
          /\ stack' = IF res = "ok" THEN Started(call, stack) ELSE stack
          /\ conv' = [conv EXCEPT ![i].calls = Append(@, RaceCall(i, call, res)),
                                  ![i].polls = 0,
                                  ![i].pc = RacePc(AfterAwait(res, WaiterOf(call)))]
    /\ UNCHANGED raceFrame

\* Mutant: a create is sent only while the other invocation is not between
\* a mutation and the end of its wait.
RaceCreateLocked(i) ==
    /\ conv[3 - i].pc \notin {"waitCreate", "waitDelete", "waitUpdate"}
    /\ RaceMutate(i, "createStack")

RaceCreate(i) == RaceMutate(i, "createStack")
RaceDelete(i) == RaceMutate(i, "deleteStack")
RaceUpdate(i) == RaceMutate(i, "updateStack")

\* One poll of the bounded wait invocation i is in.
RaceWait(i) ==
    /\ conv[i].pc \in {"waitCreate", "waitDelete", "waitUpdate"}
    /\ LET waiter == conv[i].pc
           res == WaitResult(WaiterState(waiter, stack), conv[i].polls + 1)
       IN IF res = "retry"
          THEN conv' = [conv EXCEPT ![i].polls = @ + 1]
          ELSE conv' = [conv EXCEPT ![i].calls = Append(@, RaceCall(i, waiter, res)),
                                    ![i].polls = 0,
                                    ![i].pc = RacePc(AfterAwait(res, AfterWait(waiter)))]
    /\ UNCHANGED <<stack, raceFrame>>

RaceRemoteProgress ==
    /\ \E s \in ProgressOf(stack) : stack' = s
    /\ UNCHANGED <<conv, raceFrame>>

RaceNext ==
    \/ \E i \in Procs : RaceProbe(i)
    \/ \E i \in Procs : RaceCreate(i)
    \/ \E i \in Procs : RaceDelete(i)
    \/ \E i \in Procs : RaceUpdate(i)
    \/ \E i \in Procs : RaceWait(i)
    \/ RaceRemoteProgress

RaceSpec == RaceInit /\ [][RaceNext]_vars

\* ------------------------------------------- alphanumericString on its own

\* The characters of the names: a letter of each case, a digit and three
\* characters that are not alphanumeric.
NameChars == {"a", "Z", "0", "-", "_", " "}

\* Every name of at most n characters.
Names(n) == UNION {[1..k -> NameChars] : k \in 0..n}

SanitizeInit ==
    /\ DeployInit
    /\ project = ProjectShop
    /\ bucket.exists
    /\ stack = "ABSENT"
    /\ conv = NoConv
    /\ sanitized \in {[input |-> n, output |-> <<>>, again |-> <<>>, applied |-> FALSE] :
                         n \in Names(MaxNameLen)}
    /\ cmd = NoCmd
    /\ req = NoReq
    /\ del = NoDel

\* alphanumericString is applied to the name, and again to its result.
Sanitize ==
    /\ ~sanitized.applied
    /\ sanitized' = [input |-> sanitized.input,
                     output |-> alphanumericString(sanitized.input),
                     again |-> alphanumericString(alphanumericString(sanitized.input)),
                     applied |-> TRUE]
    /\ UNCHANGED <<project, remoteVars, localVars, timedOutBefore, conv, cmd, req, del>>

SanitizeNext == Sanitize

SanitizeSpec == SanitizeInit /\ [][SanitizeNext]_vars

\* ============================================================ deployCommand

GENEZIO_NOT_AUTH_ERROR_MSG == "You are not logged in."
NoFrontendEntry == "No frontend entry in genezio configuration file."

\* The values of cloudProvider in the configuration file: unset, the four
\* the code knows and one it does not.
Providers == {Undefined, "aws", "managedAws", "genezio", "selfHostedAws", "azure"}
ScriptNames == {"preBackendDeploy", "postBackendDeploy",
                "preFrontendDeploy", "postFrontendDeploy"}
\* What deployFrontend resolves to or throws when the configuration has a
\* frontend entry.
FrontendResults == {"ok", "The build folder does not exist.",
                    "The build folder is empty.", "Request failed"}

NeedsLoginAlways(cloudProvider) == TRUE

\* configuration.cloudProvider !== "selfHostedAws"
NeedsLogin(cloudProvider) == cloudProvider # "selfHostedAws"

BackendSelectedUnlessFrontend(options) == ~options.frontend

\* !options.frontend || options.backend
BackendSelected(options) == ~options.frontend \/ options.backend

\* !options.backend || options.frontend
FrontendSelected(options) == ~options.backend \/ options.frontend

\* projectConfiguration.cloudProvider || "aws"
ProviderOrDefault(cloudProvider) ==
    IF cloudProvider = Undefined THEN "aws" ELSE cloudProvider

\* The adapter getCloudProvider returns, "throw" when it throws.
getCloudProvider(provider) ==
    CASE provider \in {"aws", "managedAws", "genezio"} -> "GenezioCloudAdapter"
      [] provider = "selfHostedAws" -> "SelfHostedAwsAdapter"
      [] OTHER -> "throw"

FrontendFailureStatusOne(message) == 1

\* The status the catch around deployFrontend exits with.
FrontendFailureStatus(message) == IF message = NoFrontendEntry THEN 0 ELSE 1

\* exit(code): the process ends; nothing of deployCommand runs after it.
Exit(c, code, step, message) ==
    [c EXCEPT !.pc = "exited", !.exited = TRUE, !.status = code,
              !.failed = step, !.error = message]

Did(c, step) == [c EXCEPT !.steps = Append(@, step)]

HasScript(c, name) == name \in c.configuration.scripts

\* Where deployCommand continues when the frontend block is reached.
FrontendEntry(c) ==
    IF FrontendSelected(c.options)
    THEN IF HasScript(c, "preFrontendDeploy") THEN "preFrontendDeploy" ELSE "deployFrontend"
    ELSE "done"

\* Where deployCommand continues after the login check.
AfterLogin(c) ==
    IF BackendSelected(c.options)
    THEN IF HasScript(c, "preBackendDeploy") THEN "preBackendDeploy" ELSE "deployClasses"
    ELSE FrontendEntry(c)

cmdFrame == <<project, remoteVars, localVars, timedOutBefore, conv, sanitized, req, del>>

\* One run of deployCommand: its flags, the configuration file and whether a
\* token is stored are the inputs.
CommandInit ==
    /\ DeployInit
    /\ project = ProjectShop
    /\ bucket.exists
    /\ stack = "ABSENT"
    /\ conv = NoConv
    /\ sanitized = NoSanitized
    /\ req = NoReq
    /\ del = NoDel
    /\ cmd \in {[pc |-> "getProjectConfiguration",
                 options |-> [frontend |-> f, backend |-> b],
                 readable |-> r,
                 authToken |-> t,
                 configuration |-> [cloudProvider |-> p, scripts |-> sc, frontend |-> fe],
                 adapter |-> "none",
                 steps |-> <<>>,
                 exited |-> FALSE,
                 status |-> 0,
                 failed |-> "",
                 error |-> ""] :
                 f \in BOOLEAN, b \in BOOLEAN, r \in BOOLEAN, t \in BOOLEAN,
                 p \in Providers, sc \in SUBSET ScriptNames, fe \in BOOLEAN}

\* getProjectConfiguration, then the login check up to its await.
GetProjectConfiguration ==
    /\ cmd.pc = "getProjectConfiguration"
    /\ LET read == Did(cmd, "getProjectConfiguration")
       IN cmd' = IF ~cmd.readable
                 THEN Exit(read, 1, "getProjectConfiguration", "Configuration error")
                 ELSE IF NeedsLogin(cmd.configuration.cloudProvider)
                      THEN [read EXCEPT !.pc = "getAuthToken"]
                      ELSE [read EXCEPT !.pc = AfterLogin(cmd)]
    /\ UNCHANGED cmdFrame

GetAuthToken ==
    /\ cmd.pc = "getAuthToken"
    /\ LET asked == Did(cmd, "getAuthToken")
       IN cmd' = IF ~cmd.authToken
                 THEN Exit(asked, 1, "getAuthToken", GENEZIO_NOT_AUTH_ERROR_MSG)
                 ELSE [asked EXCEPT !.pc = AfterLogin(cmd)]
    /\ UNCHANGED cmdFrame

\* runNewProcess of a configured script: a falsy output (the script did not
\* succeed) ends the process.
RunNewProcess(name, next, message) ==
    /\ cmd.pc = name
    /\ \E succeeded \in BOOLEAN :
          cmd' = IF ~succeeded
                 THEN Exit(Did(cmd, name), 1, name, message)
                 ELSE [Did(cmd, name) EXCEPT !.pc = next]
    /\ UNCHANGED cmdFrame

PreBackendDeploy ==
    RunNewProcess("preBackendDeploy", "deployClasses", "preBackendDeploy script failed.")

\* deployClasses up to the call of the adapter's deploy: sdk generation and
\* bundling, then getCloudProvider.
DeployClasses ==
    /\ cmd.pc = "deployClasses"
    /\ \E bundled \in BOOLEAN :
          LET started == Did(cmd, "deployClasses")
              adapter == getCloudProvider(ProviderOrDefault(cmd.configuration.cloudProvider))
              chosen == Did(started, "getCloudProvider")
          IN cmd' = IF ~bundled
                    THEN Exit(started, 1, "deployClasses", "Bundling failed")
                    ELSE IF adapter = "throw"
                    THEN Exit(chosen, 1, "deployClasses", "Unsupported cloud provider")
                    ELSE [Did(chosen, adapter) EXCEPT !.pc = "cloudAdapter.deploy",
                                                      !.adapter = adapter]
    /\ UNCHANGED cmdFrame

\* The adapter's deploy settles.
CloudAdapterDeploy ==
    /\ cmd.pc = "cloudAdapter.deploy"
    /\ \E deployed \in BOOLEAN :
          cmd' = IF ~deployed
                 THEN Exit(cmd, 1, "deployClasses", "Deploy failed")
                 ELSE [cmd EXCEPT !.pc = "writeSdkToDisk"]
    /\ UNCHANGED cmdFrame

\* The rest of deployClasses: replaceUrlsInSdk and writeSdkToDisk.
WriteSdkToDisk ==
    /\ cmd.pc = "writeSdkToDisk"
    /\ \E written \in BOOLEAN :
          cmd' = IF ~written
                 THEN Exit(cmd, 1, "deployClasses", "Sdk not written")
                 ELSE [cmd EXCEPT !.pc = IF HasScript(cmd, "postBackendDeploy")
                                         THEN "postBackendDeploy"
                                         ELSE FrontendEntry(cmd)]
    /\ UNCHANGED cmdFrame

PostBackendDeploy ==
    RunNewProcess("postBackendDeploy", FrontendEntry(cmd), "postBackendDeploy script failed.")

PreFrontendDeploy ==
    RunNewProcess("preFrontendDeploy", "deployFrontend", "preFrontendDeploy script failed.")

\* deployFrontend throws NoFrontendEntry when the configuration has no
\* frontend entry; the catch chooses the exit status by the message.
DeployFrontend ==
    /\ cmd.pc = "deployFrontend"
    /\ \E result \in FrontendResults :
          LET started == Did(cmd, "deployFrontend")
              message == IF ~cmd.configuration.frontend THEN NoFrontendEntry ELSE result
          IN cmd' = IF message # "ok"
                    THEN Exit(started, FrontendFailureStatus(message), "deployFrontend", message)
                    ELSE [started EXCEPT !.pc = IF HasScript(cmd, "postFrontendDeploy")
                                                THEN "postFrontendDeploy"
                                                ELSE "done"]
    /\ UNCHANGED cmdFrame

PostFrontendDeploy ==
    RunNewProcess("postFrontendDeploy", "done", "postFrontendDeploy script failed.")

CommandNext ==
    \/ GetProjectConfiguration
    \/ GetAuthToken
    \/ PreBackendDeploy
    \/ DeployClasses
    \/ CloudAdapterDeploy
    \/ WriteSdkToDisk
    \/ PostBackendDeploy
    \/ PreFrontendDeploy
    \/ DeployFrontend
    \/ PostFrontendDeploy

CommandSpec == CommandInit /\ [][CommandNext]_vars

\* ============================================================ deployRequest

\* What the token store yields: nothing, an empty string or a token.
AuthTokens == {Undefined, "", "token-a", "token-b"}

\* !authToken
NoToken(authToken) == authToken \in {Undefined, ""}

NotLoggedIn == "You are not logged in. Run 'genezio login' before you deploy your function."

ClassNames == {"Orders", "Users"}
Stages == {"prod", "dev"}
\* What the request resolves to (response.data) or rejects with.
DeployResponses == {"deployment-1", "deployment-2"}
RequestErrors == {"Network Error", "Request failed with status code 401",
                  "Request failed with status code 500"}
\* The message printUninformativeLog resolves to once it is aborted.
ProgressMessages == {"Deploying your backend project", "Still deploying"}

\* genezioDeployInput.find((input) => input.name === name)?.entryFile ?? ""
EntryFileOf(genezioDeployInput, name) ==
    IF name \in genezioDeployInput THEN <<name, "/index.mjs">> ELSE <<>>

\* The body of the request.
RequestBody(classes, genezioDeployInput, stage) ==
    [classes |-> {[name |-> c, entryFile |-> EntryFileOf(genezioDeployInput, c)] :
                      c \in classes},
     stage |-> stage]

NewController == [created |-> FALSE, aborted |-> FALSE, aborts |-> 0]

AbortNothing(controller) == controller

\* controller.abort()
Abort(controller) == [controller EXCEPT !.aborted = TRUE, !.aborts = @ + 1]

NoOutcome == [kind |-> "none", value |-> ""]

reqFrame == <<project, remoteVars, localVars, timedOutBefore, conv, sanitized, cmd, del>>

\* One call of deployRequest: the stored token, the classes of the project,
\* the bundled input and the stage are the inputs.
DeployRequestInit ==
    /\ DeployInit
    /\ project = ProjectShop
    /\ bucket.exists
    /\ stack = "ABSENT"
    /\ conv = NoConv
    /\ sanitized = NoSanitized
    /\ cmd = NoCmd
    /\ del = NoDel
    /\ req \in {[pc |-> "getAuthToken",
                 authToken |-> t,
                 classes |-> cs,
                 genezioDeployInput |-> gi,
                 stage |-> st,
                 sent |-> <<>>,
                 controller |-> NewController,
                 logging |-> FALSE,
                 message |-> "",
                 response |-> NoOutcome,
                 result |-> NoOutcome,
                 userError |-> FALSE] :
                 t \in AuthTokens, cs \in (SUBSET ClassNames) \ {{}},
                 gi \in SUBSET ClassNames, st \in Stages}

\* getAuthToken settles; with a token the body is built, the controller
\* created, the progress log started and the request sent.
RequestGetAuthToken ==
    /\ req.pc = "getAuthToken"
    /\ req' = IF NoToken(req.authToken)
              THEN [req EXCEPT !.pc = "thrown",
                               !.result = [kind |-> "thrown", value |-> NotLoggedIn],
                               !.userError = TRUE]
              ELSE [req EXCEPT !.pc = "axios",
                               !.controller = [NewController EXCEPT !.created = TRUE],
                               !.logging = TRUE,
                               !.sent = Append(@,
                                   [Authorization |-> <<"Bearer ", req.authToken>>,
                                    data |-> RequestBody(req.classes,
                                                req.genezioDeployInput, req.stage)])]
    /\ UNCHANGED reqFrame

\* The request resolves: controller.abort(), then the message is awaited.
RequestResolves ==
    /\ req.pc = "axios"
    /\ \E data \in DeployResponses :
          req' = [req EXCEPT !.pc = "messagePromise",
                             !.response = [kind |-> "response", value |-> data],
                             !.controller = Abort(@)]
    /\ UNCHANGED reqFrame

\* The request rejects: the catch calls controller.abort(), then awaits the
\* message.
RequestRejects ==
    /\ req.pc = "axios"
    /\ \E e \in RequestErrors :
          req' = [req EXCEPT !.pc = "messagePromise",
                             !.response = [kind |-> "error", value |-> e],
                             !.controller = Abort(@)]
    /\ UNCHANGED reqFrame

\* The progress log ends with its message: the function returns
\* response.data, or the catch rethrows the error of the request.
MessageSettles ==
    /\ req.pc = "messagePromise"
    /\ req.controller.aborted
    /\ \E m \in ProgressMessages :
          req' = [req EXCEPT !.logging = FALSE,
                             !.message = m,
                             !.pc = IF req.response.kind = "response"
                                    THEN "returned" ELSE "thrown",
                             !.result = [kind |-> IF req.response.kind = "response"
                                                  THEN "returned" ELSE "thrown",
                                         value |-> req.response.value]]
    /\ UNCHANGED reqFrame

DeployRequestNext ==
    \/ RequestGetAuthToken
    \/ RequestResolves
    \/ RequestRejects
    \/ MessageSettles

DeployRequestSpec == DeployRequestInit /\ [][DeployRequestNext]_vars

\* ============================================================ deleteProject

ClassIds == {"class-1", "class-2", "class-3"}
\* What readToken settles with: a rejection, an empty file or a token.
StoredTokens == {"unreadable", "", "token-a", "token-b"}
DeleteErrors == {"Network Error", "timeout of 100000ms exceeded",
                 "Request failed with status code 500"}

\* await readToken().catch(() => undefined)
ReadTokenOrUndefined(stored) == IF stored = "unreadable" THEN Undefined ELSE stored

\* The shapes of response.data: absent; or an object with or without an
\* error, whose message is absent, empty or a text, and with a status that
\* is absent, 'ok' or something else.
NoData == [present |-> FALSE, hasError |-> FALSE, message |-> Undefined, status |-> Undefined]
DeleteResponses ==
    {NoData} \cup
    {[present |-> TRUE, hasError |-> FALSE, message |-> Undefined, status |-> st] :
        st \in {Undefined, "ok", "error"}} \cup
    {[present |-> TRUE, hasError |-> TRUE, message |-> m, status |-> st] :
        m \in {Undefined, "", "Project not found"}, st \in {Undefined, "ok", "error"}}

\* response.data?.error?.message
ErrorMessageOf(data) ==
    IF data.present /\ data.hasError THEN data.message ELSE Undefined

Truthy(text) == text \notin {Undefined, ""}

\* What deleteProject does with a response: lines 29-38. Reading
\* response.data.status of an absent data is a TypeError.
DeleteOutcome(data) ==
    IF Truthy(ErrorMessageOf(data))
    THEN [kind |-> "thrown", value |-> ErrorMessageOf(data)]
    ELSE IF ~data.present
    THEN [kind |-> "thrown", value |-> "TypeError"]
    ELSE IF data.status # "ok"
    THEN [kind |-> "returned", value |-> "false"]
    ELSE [kind |-> "returned", value |-> "true"]

delFrame == <<project, remoteVars, localVars, timedOutBefore, conv, sanitized, cmd, req>>

\* One call of deleteProject: the class id and the stored token are the
\* inputs.
DeleteProjectInit ==
    /\ DeployInit
    /\ project = ProjectShop
    /\ bucket.exists
    /\ stack = "ABSENT"
    /\ conv = NoConv
    /\ sanitized = NoSanitized
    /\ cmd = NoCmd
    /\ req = NoReq
    /\ del \in {[pc |-> "readToken",
                 classId |-> id,
                 stored |-> t,
                 sent |-> <<>>,
                 rejected |-> "",
                 data |-> NoData,
                 result |-> NoOutcome] :
                 id \in ClassIds, t \in StoredTokens}

\* readToken settles; with a token the DELETE request is sent.
ReadToken ==
    /\ del.pc = "readToken"
    /\ LET authToken == ReadTokenOrUndefined(del.stored)
       IN del' = IF ~Truthy(authToken)
                 THEN [del EXCEPT !.pc = "thrown",
                                  !.result = [kind |-> "thrown", value |-> NotLoggedIn]]
                 ELSE [del EXCEPT !.pc = "axios",
                                  !.sent = Append(@,
                                      [url |-> <<"/projects/", del.classId>>,
                                       Authorization |-> <<"Bearer ", authToken>>])]
    /\ UNCHANGED delFrame

\* The request rejects: the catch rethrows the error.
DeleteRejects ==
    /\ del.pc = "axios"
    /\ \E e \in DeleteErrors :
          del' = [del EXCEPT !.pc = "thrown",
                             !.rejected = e,
                             !.result = [kind |-> "thrown", value |-> e]]
    /\ UNCHANGED delFrame

\* The request resolves with a response.
DeleteResponds ==
    /\ del.pc = "axios"
    /\ \E data \in DeleteResponses :
          del' = [del EXCEPT !.pc = "responded",
                             !.data = data,
                             !.result = DeleteOutcome(data)]
    /\ UNCHANGED delFrame

DeleteProjectNext ==
    \/ ReadToken
    \/ DeleteRejects
    \/ DeleteResponds

DeleteProjectSpec == DeleteProjectInit /\ [][DeleteProjectNext]_vars

\* ============================================================== properties

OpIndexes(o) == {k \in 1..Len(ops) : ops[k].op = o}
Count(o) == Cardinality(OpIndexes(o))
Issued(o, r) == \E k \in 1..Len(ops) : ops[k] = Op(o, r)

StackMutations == {"createStack", "deleteStack", "updateStack"}
StackOps == StackMutations \cup
            {"describeStacks", "waitCreate", "waitDelete", "waitUpdate", "describeFinal"}
StagingOps == {"createBucket", "putBucketVersioning", "putObject", "headObject"}
Waits == {"waitCreate", "waitDelete", "waitUpdate"}

\* #updateStack of this invocation has returned to deploy.
ConvergeReturned == pc = "describeFinal" \/ Count("describeFinal") > 0

\* What the probe of this invocation was answered.
ProbedStatus(statuses) ==
    /\ probe.resp.kind = "stacks"
    /\ probe.resp.count = 1
    /\ probe.resp.status \in statuses
ProbedNotFound ==
    /\ probe.resp.kind = "error"
    /\ probe.resp.message = NotExistMessage(StackName(project))
ProbedEmptyList == probe.resp.kind = "stacks" /\ probe.resp.count = 0

\* Exactly one call o is issued on this path: it is the call deploy is about
\* to make, or it is in the log once.
ExactlyOne(o) == (pc = o /\ Count(o) = 0) \/ Count(o) = 1

\* C1 - Rollback recovery: after a probe that returned ROLLBACK_COMPLETE the
\* call issues exactly one delete and no update; a create is issued only
\* directly after the wait for the delete has returned, and exactly one is
\* issued then; when the convergence returns, the log is delete, wait for the
\* delete, create, wait for the create, in that order.
C1_RollbackRecovery ==
    ProbedStatus({"ROLLBACK_COMPLETE"}) =>
        /\ Count("updateStack") = 0
        /\ ExactlyOne("deleteStack")
        /\ Count("createStack") <= 1
        /\ \A c \in OpIndexes("createStack") :
              /\ c >= 3
              /\ ops[c - 2] = Op("deleteStack", "ok")
              /\ ops[c - 1] = Op("waitDelete", "ok")
        /\ Issued("waitDelete", "ok") => ExactlyOne("createStack")
        /\ ConvergeReturned =>
              \E d \in 1..Len(ops) :
                 /\ d + 3 <= Len(ops)
                 /\ ops[d] = Op("deleteStack", "ok")
                 /\ ops[d + 1] = Op("waitDelete", "ok")
                 /\ ops[d + 2] = Op("createStack", "ok")
                 /\ ops[d + 3] = Op("waitCreate", "ok")

C1_Witness ==
    /\ ProbedStatus({"ROLLBACK_COMPLETE"})
    /\ outcome = "returned"
    /\ Count("deleteStack") = 1
    /\ Count("createStack") = 1

\* C2 - No destructive no-op: after a probe that returned CREATE_COMPLETE or
\* UPDATE_COMPLETE the call issues exactly one update and never a delete or a
\* create; when the convergence returns, the wait for the update has observed
\* UPDATE_COMPLETE.
C2_NoDestructiveNoop ==
    ProbedStatus({"CREATE_COMPLETE", "UPDATE_COMPLETE"}) =>
        /\ Count("deleteStack") = 0
        /\ Count("createStack") = 0
        /\ ExactlyOne("updateStack")
        /\ ConvergeReturned =>
              \E u \in 1..Len(ops) :
                 /\ u + 1 <= Len(ops)
                 /\ ops[u] = Op("updateStack", "ok")
                 /\ ops[u + 1] = Op("waitUpdate", "ok")

C2_Witness ==
    /\ ProbedStatus({"UPDATE_COMPLETE"})
    /\ outcome = "returned"
    /\ Issued("waitUpdate", "ok")

\* C3 - Absent: after a probe that was answered "does not exist" or an empty
\* stack list the call issues exactly one create and no delete and no update;
\* when the convergence returns, the wait for the create has succeeded.
C3_AbsentCreates ==
    (ProbedNotFound \/ ProbedEmptyList) =>
        /\ Count("deleteStack") = 0
        /\ Count("updateStack") = 0
        /\ ExactlyOne("createStack")
        /\ ConvergeReturned =>
              \E c \in 1..Len(ops) :
                 /\ c + 1 <= Len(ops)
                 /\ ops[c] = Op("createStack", "ok")
                 /\ ops[c + 1] = Op("waitCreate", "ok")

C3_Witness ==
    /\ ProbedEmptyList
    /\ outcome = "returned"
    /\ Issued("waitCreate", "ok")

\* C4 - Any other status of an existing stack: after a probe that returned a
\* stack whose status is not ROLLBACK_COMPLETE the call issues exactly one
\* update and never a create or a delete; when the convergence returns, the
\* wait for the update has succeeded.
C4_OtherStatusUpdates ==
    ProbedStatus(StackStatuses \ {"ABSENT", "ROLLBACK_COMPLETE"}) =>
        /\ Count("deleteStack") = 0
        /\ Count("createStack") = 0
        /\ ExactlyOne("updateStack")
        /\ ConvergeReturned =>
              \E u \in 1..Len(ops) :
                 /\ u + 1 <= Len(ops)
                 /\ ops[u] = Op("updateStack", "ok")
                 /\ ops[u + 1] = Op("waitUpdate", "ok")

C4_Witness ==
    /\ ProbedStatus({"CREATE_IN_PROGRESS", "DELETE_FAILED", "UPDATE_ROLLBACK_COMPLETE"})
    /\ Count("updateStack") = 1
    /\ pc = "done"

\* C5 - The probe maps "does not exist" to Absent and the call goes on with a
\* create; any other error of the probe makes deploy fail at once, with no
\* create, update or delete issued.
C5_ProbeErrors ==
    /\ ProbedNotFound =>
          /\ ~probe.threw
          /\ ~probe.exists
          /\ branch = "absent"
          /\ ExactlyOne("createStack")
    /\ (probe.resp.kind = "error" /\ ~ProbedNotFound) =>
          /\ outcome = "failed"
          /\ pc = "done"
          /\ ops[Len(ops)].op = "describeStacks"
          /\ \A k \in 1..Len(ops) : ops[k].op \notin StackMutations

C5_Witness ==
    /\ ProbedNotFound
    /\ Issued("createStack", "ok")

\* C6 - No success for a degraded stack: deploy returns a result only if the
\* final describe returned a stack whose status is CREATE_COMPLETE or
\* UPDATE_COMPLETE; for every other answer of the final describe it fails.
C6_NoDegradedSuccess ==
    LET healthy == /\ finalResp.kind = "stacks"
                   /\ finalResp.count = 1
                   /\ finalResp.status \in {"CREATE_COMPLETE", "UPDATE_COMPLETE"}
    IN /\ outcome = "returned" => healthy
       /\ (finalResp.kind # "none" /\ ~healthy) =>
             (outcome = "failed" /\ output = <<>>)

C6_Witness ==
    /\ finalResp.kind = "stacks"
    /\ finalResp.count = 1
    /\ finalResp.status \notin {"CREATE_COMPLETE", "UPDATE_COMPLETE"}
    /\ Issued("waitUpdate", "ok")
    /\ outcome = "failed"

\* C7 - Timeout is fatal: a bounded wait that timed out is the last call of
\* its invocation and the invocation has failed; no create follows a delete
\* whose wait timed out.
C7_TimeoutFatal ==
    \A k \in 1..Len(ops) :
        (ops[k].op \in Waits /\ ops[k].res = "timeout") =>
            /\ k = Len(ops)
            /\ outcome = "failed"
            /\ pc = "done"
            /\ (ops[k].op = "waitDelete" => Count("createStack") = 0)

C7_Witness ==
    /\ ProbedStatus({"ROLLBACK_COMPLETE"})
    /\ Issued("waitDelete", "timeout")

\* C8 - Versioning before first write: every object written to the bucket
\* was written while versioning was enabled on it.
C8_VersioningBeforeWrite == \A w \in writes : w.versioned

\* C9 - Version pinning: the function resource of every synthesized unit
\* carries a version id, and it is the id of the object that the upload of
\* that unit stored in this invocation.
C9_VersionPinning ==
    \A k \in 1..Len(project.input) :
        (k < idx /\ outcome # "none") =>
            LET f == builder.Resources[lambdaFunctionResourceName(project.input[k])]
            IN /\ f.S3ObjectVersion # NoVersion
               /\ f.S3ObjectVersion = uploaded[k]

\* C10 - Staging errors are fatal: a failed bucket creation, versioning
\* change, upload or version resolution is the last call of its invocation,
\* the invocation has failed and no call on the stack was issued in it.
C10_StagingFatal ==
    \A k \in 1..Len(ops) :
        (ops[k].op \in StagingOps /\ ops[k].res = "error") =>
            /\ k = Len(ops)
            /\ outcome = "failed"
            /\ pc = "done"
            /\ \A j \in 1..Len(ops) : ops[j].op \notin StackOps

C10_Witness ==
    /\ Len(ops) >= 3
    /\ ops[Len(ops)] = Op("putObject", "error")
    /\ Issued("headObject", "ok")
    /\ outcome = "failed"

\* The class configuration of input item k.
ClassOf(k) == FindClass(project.classes, project.input[k].filePath)

\* Input item k has a class configuration whose language is in no row of the
\* language-to-runtime table.
UnknownLanguage(k) ==
    /\ ClassOf(k).found
    /\ ClassOf(k).language \notin {".js", ".ts", ".dart"}

\* The ids of the resources of the given type in the template.
ResourcesOfType(type) ==
    {id \in DOMAIN builder.Resources : builder.Resources[id].Type = type}

C12_UnknownLanguageFatal ==
    /\ \A k \in 1..Len(project.input) :
          UnknownLanguage(k) =>
              /\ idx <= k
              /\ ~(idx = k /\ pc = "headObject")
              /\ ~builder.built
              /\ outcome # "returned"
              /\ \A j \in 1..Len(ops) : ops[j].op \notin StackOps
    /\ error = "Unsupported language" => (outcome = "failed" /\ pc = "done")
    /\ \A id \in ResourcesOfType("AWS::Lambda::Function") :
          \E k \in 1..Len(project.input) :
             /\ builder.Resources[id].S3Key = BucketKey(project, project.input[k])
             /\ ClassOf(k).found
             /\ builder.Resources[id].Runtime =
                   (IF ClassOf(k).language \in {".js", ".ts"} THEN "nodejs14.x"
                    ELSE IF ClassOf(k).language = ".dart" THEN "provided.al2"
                    ELSE "none")

C12_Witness ==
    /\ project = ProjectSecondBad
    /\ error = "Unsupported language"
    /\ outcome = "failed"
    /\ idx = 2
    /\ ResourcesOfType("AWS::Lambda::Function") # {}

\* The names of a sequence of named things are pairwise distinct.
DistinctNamed(seq) ==
    \A a, b \in 1..Len(seq) : a # b => seq[a].name # seq[b].name

\* The unit names are pairwise distinct and so are the method names of a unit.
DistinctNames(p) ==
    /\ DistinctNamed(p.input)
    /\ \A k \in 1..Len(p.input) : DistinctNamed(p.input[k].methods)
    /\ \A k \in 1..Len(p.classes) : DistinctNamed(p.classes[k].methods)

\* C13 - Unique resource ids: in a project with distinct names no id is
\* emitted twice, and none is the id of the gateway, the stage or the
\* deployment, so no emitted resource overwrites another.
C13_UniqueResourceIds ==
    (DistinctNames(project) /\ outcome # "none") =>
        /\ Cardinality(Range(builder.resourceIds)) = Len(builder.resourceIds)
        /\ Range(builder.resourceIds)
              \cap {builder.apiGatewayResourceName, sApiStage, sApiDeployment} = {}

\* The route keys a unit must have: the catch-all and one per http method.
ExpectedRouteKeys(k) ==
    {ClassRouteKey(project.input[k])}
    \cup {MethodRouteKey(project.input[k], ClassOf(k).methods[j]) :
             j \in {j \in 1..Len(ClassOf(k).methods) :
                       ClassOf(k).methods[j].type = "http"}}

AllExpectedRouteKeys ==
    UNION {ExpectedRouteKeys(k) : k \in 1..Len(project.input)}

\* C14 - Route completeness: the route keys of a built template are exactly,
\* for every unit, the catch-all route and one route per http method, each
\* carried by one route resource that is bound to the integration of its unit.
C14_RouteCompleteness ==
    builder.built =>
        /\ {builder.Resources[id].RouteKey :
               id \in ResourcesOfType("AWS::ApiGatewayV2::Route")} = AllExpectedRouteKeys
        /\ Cardinality(ResourcesOfType("AWS::ApiGatewayV2::Route"))
              = Cardinality(AllExpectedRouteKeys)
        /\ \A k \in 1..Len(project.input) :
              \A key \in ExpectedRouteKeys(k) :
                 \E id \in ResourcesOfType("AWS::ApiGatewayV2::Route") :
                    /\ builder.Resources[id].RouteKey = key
                    /\ integrationResourceName(project.input[k])
                          \in builder.Resources[id].Refs

\* The ids the loop emits for input item k.
UnitResourceIds(k) ==
    LET item == project.input[k]
    IN {invokePermissionResourceName(item), routeResourceName(item),
        integrationResourceName(item), lambdaFunctionResourceName(item),
        roleResourceName(item)}
       \cup {routeResourceName(item) \o ClassOf(k).methods[j].name :
                j \in {j \in 1..Len(ClassOf(k).methods) :
                          ClassOf(k).methods[j].type = "http"}}

\* C15 - The deployment depends on everything: in a built template the
\* DependsOn of the deployment holds the stage, every id emitted for every
\* unit, and every resource of the template but the gateway and itself.
C15_DeploymentDependsOnAll ==
    builder.built =>
        LET dependsOn == Range(builder.Resources[sApiDeployment].DependsOn)
        IN /\ sApiStage \in dependsOn
           /\ \A k \in 1..Len(project.input) : UnitResourceIds(k) \subseteq dependsOn
           /\ DOMAIN builder.Resources
                 \ {builder.apiGatewayResourceName, sApiDeployment} \subseteq dependsOn

C15_Witness ==
    /\ builder.built
    /\ project = ProjectTwoUnits
    /\ Len(builder.Resources[sApiDeployment].DependsOn) = 12

\* The final describe returned one stack in CREATE_COMPLETE or UPDATE_COMPLETE.
FinalHealthy ==
    /\ finalResp.kind = "stacks"
    /\ finalResp.count = 1
    /\ finalResp.status \in {"CREATE_COMPLETE", "UPDATE_COMPLETE"}

\* C16 - Endpoint resolution: in a returned result, with the base URL read
\* from the final stack state, every unit has the URL base/unit, every http
\* method base/unit/method and every other method the URL of its unit.
C16_EndpointResolution ==
    outcome = "returned" =>
        LET base == ApiGatewayUrl(finalOutputs)
        IN /\ Len(output) = Len(project.input)
           /\ \A k \in 1..Len(project.input) :
                 LET item == project.input[k]
                     unitUrl == <<base, "/">> \o item.name
                 IN /\ output[k].className = item.name
                    /\ output[k].functionUrl = unitUrl
                    /\ Len(output[k].methods) = Len(item.methods)
                    /\ \A j \in 1..Len(item.methods) :
                          /\ output[k].methods[j].name = item.methods[j].name
                          /\ output[k].methods[j].functionUrl =
                                (IF item.methods[j].type = "http"
                                 THEN unitUrl \o <<"/">> \o item.methods[j].name
                                 ELSE unitUrl)

C16_Witness ==
    /\ outcome = "returned"
    /\ project = ProjectTwoUnits
    /\ finalOutputs = "ApiUrl"

\* The result of the end-to-end scenario.
sOrdersUrl == <<"https://abc123.example/prod", "/">> \o sOrders

ExpectedShopResult ==
    <<[className |-> sOrders,
       methods |-> <<[name |-> sInvoice, type |-> "http",
                      functionUrl |-> sOrdersUrl \o <<"/">> \o sInvoice],
                     [name |-> sList, type |-> "jsonrpc",
                      functionUrl |-> sOrdersUrl]>>,
       functionUrl |-> sOrdersUrl]>>

\* An invocation for project p has ended in the conditions of the scenario:
\* credentials are set, every call it issued was served (the bucket probe may
\* find no bucket), the stack probe found no stack, and the final describe
\* returned a complete stack with the base URL output.
ScenarioEnded(p) ==
    /\ project = p
    /\ pc = "done"
    /\ credentials
    /\ \A k \in 1..Len(ops) : ops[k].op # "headBucket" => ops[k].res = "ok"
    /\ probe.resp.kind # "none" => (ProbedNotFound \/ ProbedEmptyList)
    /\ finalResp.kind # "none" => (FinalHealthy /\ finalOutputs = "ApiUrl")

C18_AmbiguousOutputFatal == outcome = "returned" => finalOutputs = "ApiUrl"

\* C19 - No partial success: when deploy returns a result, every input unit
\* was uploaded in this invocation and has a function resource for its
\* artifact in the built template, the final stack state is complete and the
\* result has one entry per unit with one URL per method; otherwise there is
\* no result.
C19_NoPartialSuccess ==
    /\ outcome = "returned" =>
          /\ builder.built
          /\ FinalHealthy
          /\ Len(output) = Len(project.input)
          /\ \A k \in 1..Len(project.input) :
                /\ \E w \in writes :
                      w.key = BucketKey(project, project.input[k]) /\ w.inv = inv
                /\ \E id \in ResourcesOfType("AWS::Lambda::Function") :
                      builder.Resources[id].S3Key = BucketKey(project, project.input[k])
                /\ output[k].className = project.input[k].name
                /\ Len(output[k].methods) = Len(project.input[k].methods)
    /\ outcome # "returned" => output = <<>>
    /\ pc = "done" => outcome \in {"returned", "failed"}

\* C20 - Pre-flight check first: when deploy fails for missing credentials,
\* no remote call has been issued in that invocation.
C20_PreflightFirst ==
    (outcome = "failed" /\ error = "AWS credentials not found") => ops = <<>>

\* The number of calls o of this invocation that succeeded.
OkCount(o) == Cardinality({k \in 1..Len(ops) : ops[k] = Op(o, "ok")})

\* C21 - Joined staging: a resource is synthesized only when the uploads of
\* all units of the input have succeeded.
C21_JoinedStaging ==
    builder.resourceIds # <<>> => OkCount("putObject") = Len(project.input)

\* The phase of deploy a call belongs to.
Phase(o) ==
    CASE o = "headBucket" -> 0
      [] o \in {"createBucket", "putBucketVersioning"} -> 1
      [] o \in {"putObject", "headObject"} -> 2
      [] o = "describeFinal" -> 4
      [] OTHER -> 3

\* C22 - Phase order: the calls of one invocation come in the order bucket
\* probe, bucket creation, staging, convergence, final describe; the stack is
\* probed or mutated only after every unit was uploaded and version-resolved
\* and the template was built; a result exists only after the final describe
\* returned a stack in a complete status.
C22_PhaseOrder ==
    /\ \A i, j \in 1..Len(ops) : i < j => Phase(ops[i].op) <= Phase(ops[j].op)
    /\ ops # <<>> => ops[1].op = "headBucket"
    /\ ((\E k \in 1..Len(ops) : ops[k].op \in StackOps) \/ pc \in StackOps) =>
          /\ bucketExists \/ (Issued("createBucket", "ok")
                              /\ Issued("putBucketVersioning", "ok"))
          /\ OkCount("putObject") = Len(project.input)
          /\ OkCount("headObject") = Len(project.input)
          /\ builder.built
    /\ output # <<>> => (Issued("describeFinal", "ok") /\ FinalHealthy)

C22_Witness ==
    /\ outcome = "returned"
    /\ project = ProjectTwoUnits
    /\ Issued("createBucket", "ok")
    /\ Issued("createStack", "ok")

\* C23 - Re-invocation is safe: in every invocation of a sequence of
\* invocations, also after one that failed by a timeout, a delete is issued
\* only after this invocation's probe returned ROLLBACK_COMPLETE, and (as
\* long as no other principal changed the stack) only on a stack that is in
\* that status; a create is never issued after a probe that returned
\* CREATE_COMPLETE or UPDATE_COMPLETE and never replaces such a stack.
C23_ReinvocationSafe ==
    [][/\ DeleteStack =>
             /\ ProbedStatus({"ROLLBACK_COMPLETE"})
             /\ externalLeft = MaxExternal => stack = "ROLLBACK_COMPLETE"
       /\ CreateStack =>
             /\ ~ProbedStatus({"CREATE_COMPLETE", "UPDATE_COMPLETE"})
             /\ stack \in {"CREATE_COMPLETE", "UPDATE_COMPLETE"} => stack' = stack]_vars

C23_Witness ==
    /\ timedOutBefore
    /\ ProbedStatus({"ROLLBACK_COMPLETE"})
    /\ Issued("deleteStack", "ok")
    /\ Issued("createStack", "ok")

\* The positions of deploy inside #updateStack.
ConvergePcs ==
    {"describeStacks", "createStack", "deleteStack", "updateStack",
     "waitCreate", "waitDelete", "waitUpdate"}

\* C24 - Every converge call terminates: a call makes at most two bounded
\* waits, each of at most MaxPolls polls, it returns to deploy only after its
\* last wait observed the awaited status, and whatever the remote system
\* does, a call that was entered eventually returns or fails.
C24_ConvergeTerminates ==
    /\ [](/\ Cardinality({k \in 1..Len(ops) : ops[k].op \in Waits}) <= 2
          /\ polls < MaxPolls
          /\ pc = "describeFinal" =>
                (ops[Len(ops)].op \in Waits /\ ops[Len(ops)].res = "ok"))
    /\ (pc \in ConvergePcs) ~> (pc \in {"describeFinal", "done"})

C24_Witness ==
    /\ Issued("waitDelete", "ok")
    /\ Issued("waitCreate", "timeout")
    /\ outcome = "failed"

\* What the probe of invocation i of the interleaved convergence was answered.
RaceProbedAbsent(i) ==
    \/ /\ conv[i].resp.kind = "error"
       /\ conv[i].resp.message = NotExistMessage(StackName(project))
    \/ conv[i].resp.kind = "stacks" /\ conv[i].resp.count = 0

RaceProbedStatus(i, statuses) ==
    /\ conv[i].resp.kind = "stacks"
    /\ conv[i].resp.count = 1
    /\ conv[i].resp.status \in statuses

\* The mutations invocation i has sent.
RaceMutations(i) ==
    {k \in 1..Len(conv[i].calls) : conv[i].calls[k].op \in StackMutations}

\* Invocation i sent a mutation while the other invocation was between a
\* mutation of its own and the end of the wait for it.
Overlapped(i) == \E k \in RaceMutations(i) : conv[i].calls[k].other \in Waits

\* C25 - No lock: in two interleaved invocations on one stack name, each
\* invocation goes on to the mutation that its own probe selected, and at
\* that position the mutation can be sent whatever the other invocation has
\* done since or is doing.
C25_NoLock ==
    \A i \in Procs :
        /\ RaceProbedAbsent(i) =>
              IF conv[i].calls = <<>> THEN conv[i].pc = "createStack"
              ELSE conv[i].calls[1].op = "createStack"
        /\ RaceProbedStatus(i, {"ROLLBACK_COMPLETE"}) =>
              IF conv[i].calls = <<>> THEN conv[i].pc = "deleteStack"
              ELSE conv[i].calls[1].op = "deleteStack"
        /\ RaceProbedStatus(i, StackStatuses \ {"ROLLBACK_COMPLETE"}) =>
              IF conv[i].calls = <<>> THEN conv[i].pc = "updateStack"
              ELSE conv[i].calls[1].op = "updateStack"
        /\ conv[i].pc = "createStack" => ENABLED RaceCreate(i)
        /\ conv[i].pc = "deleteStack" => ENABLED RaceDelete(i)
        /\ conv[i].pc = "updateStack" => ENABLED RaceUpdate(i)

\* Both invocations probed an absent stack, both sent a create, and one of
\* the creates was sent while the other invocation waited for its own.
C25_Witness ==
    /\ \A i \in Procs : RaceProbedAbsent(i)
    /\ \A i \in Procs : \E k \in RaceMutations(i) : conv[i].calls[k].op = "createStack"
    /\ \E i \in Procs : Overlapped(i)

\* Resource id is in the template with the given type.
HasResource(id, type) ==
    id \in DOMAIN builder.Resources /\ builder.Resources[id].Type = type

\* C26 - Zero methods: in a built template, a unit whose class has no
\* methods has its function, role, invoke permission, integration and the
\* catch-all route 'ANY /<unit>', and no other route targets its integration.
C26_ZeroMethodUnit ==
    \A k \in 1..Len(project.input) :
        (builder.built /\ ClassOf(k).found /\ ClassOf(k).methods = <<>>) =>
            LET item == project.input[k]
            IN /\ HasResource(lambdaFunctionResourceName(item), "AWS::Lambda::Function")
               /\ HasResource(roleResourceName(item), "AWS::IAM::Role")
               /\ HasResource(invokePermissionResourceName(item), "AWS::Lambda::Permission")
               /\ HasResource(integrationResourceName(item),
                              "AWS::ApiGatewayV2::Integration")
               /\ HasResource(routeResourceName(item), "AWS::ApiGatewayV2::Route")
               /\ builder.Resources[routeResourceName(item)].RouteKey = ClassRouteKey(item)
               /\ {id \in ResourcesOfType("AWS::ApiGatewayV2::Route") :
                      integrationResourceName(item) \in builder.Resources[id].Refs}
                  = {routeResourceName(item)}

C26_Witness ==
    /\ builder.built
    /\ project = ProjectNoMethods
    /\ Issued("describeStacks", "ok")

\* The sequence part occurs in the sequence text.
Contains(text, part) ==
    \E k \in 1..(Len(text) - Len(part) + 1) :
        SubSeq(text, k, k + Len(part) - 1) = part

\* C27 - Failure context: when the final check fails on the status of the
\* stack, the text of the error that deploy throws holds the name of the
\* stack and the status that was observed.
C27_FailureContext ==
    (outcome = "failed" /\ error = "Stack update failed") =>
        /\ Contains(StackUpdateFailedMessage, StackName(project))
        /\ finalResp.kind = "stacks" /\ finalResp.count = 1 =>
              Contains(StackUpdateFailedMessage, <<finalResp.status>>)

RECURSIVE KeepAlphanumeric(_)
\* The alphanumeric characters of a name, in their order and case.
KeepAlphanumeric(n) ==
    IF n = <<>> THEN <<>>
    ELSE (IF Head(n) \in Digits \cup LowerCase \cup UpperCase THEN <<Head(n)>> ELSE <<>>)
         \o KeepAlphanumeric(Tail(n))

\* C28 - Sanitization: the sanitized id of a name is exactly the alphanumeric
\* characters of the name in their order and case, it is what
\* alphanumericString gives for that name whenever it is applied, and
\* sanitizing it again leaves it unchanged.
C28_SanitizeIdempotent ==
    sanitized.applied =>
        /\ sanitized.output = KeepAlphanumeric(sanitized.input)
        /\ sanitized.output = alphanumericString(sanitized.input)
        /\ sanitized.again = sanitized.output

C28_Witness ==
    /\ sanitized.applied
    /\ sanitized.input = <<"-", "Z", "_">>
    /\ sanitized.output = <<"Z">>

\* C29 - The resolver performs no remote calls: the final describe is the
\* last call of an invocation that returns a result and is made once, and the
\* step that fetches the final state and builds the result leaves the bucket,
\* its objects and the stack as they are.
C29_ResolverNoRemoteCalls ==
    /\ [](outcome = "returned" =>
             /\ ops[Len(ops)] = Op("describeFinal", "ok")
             /\ Count("describeFinal") = 1
             /\ \A k \in 1..Len(ops) :
                   ops[k].op \in {"headBucket"} \cup StagingOps \cup StackOps)
    /\ [][DescribeFinal => UNCHANGED remoteVars]_vars

C29_Witness ==
    /\ outcome = "returned"
    /\ project = ProjectTwoUnits
    /\ output # <<>>
    /\ Issued("updateStack", "ok")

\* C30 - Dependency order: in the recorded ids of a built template, every
\* recorded resource that a resource references is recorded before it.
C30_DependencyOrder ==
    builder.built =>
        \A i \in 1..Len(builder.resourceIds) :
            \A ref \in builder.Resources[builder.resourceIds[i]].Refs
                          \cap Range(builder.resourceIds) :
                \E j \in 1..(i - 1) : builder.resourceIds[j] = ref

\* C31 - Referential integrity: in a built template every resource id that a
\* resource references (Ref, Fn::GetAtt, DependsOn) and the gateway that the
\* output references are resources of the template.
C31_ReferentialIntegrity ==
    builder.built =>
        /\ \A id \in DOMAIN builder.Resources :
              /\ builder.Resources[id].Refs \subseteq DOMAIN builder.Resources
              /\ Range(builder.Resources[id].DependsOn) \subseteq DOMAIN builder.Resources
        /\ builder.Outputs = {"ApiUrl"}
        /\ HasResource(builder.apiGatewayResourceName, "AWS::ApiGatewayV2::Api")

C31_Witness ==
    /\ builder.built
    /\ project = ProjectTwoUnits
    /\ Issued("createStack", "ok")

\* The path of a route key 'ANY /...' and the path a URL appends to its base.
RoutePath(routeKey) == <<"/">> \o Tail(routeKey)
UrlPath(url) == Tail(url)

\* C32 - Resolved URLs address existing routes: for every method of every
\* unit of a returned result the template has a route with the key
\* 'ANY /U/m' when the method is http and 'ANY /U' otherwise, and the path
\* of the method's URL is the path of that route.
C32_UrlsAddressRoutes ==
    outcome = "returned" =>
        \A k \in 1..Len(project.input) :
            \A j \in 1..Len(project.input[k].methods) :
                LET item == project.input[k]
                    m == item.methods[j]
                    routeKey == IF m.type = "http" THEN MethodRouteKey(item, m)
                                ELSE ClassRouteKey(item)
                IN /\ \E id \in ResourcesOfType("AWS::ApiGatewayV2::Route") :
                         builder.Resources[id].RouteKey = routeKey
                   /\ UrlPath(output[k].methods[j].functionUrl) = RoutePath(routeKey)

\* C33 - The bucket probe treats every failure as absence: after a probe
\* that failed the next call of deploy is the creation of the bucket,
\* followed when it succeeds by the enabling of versioning; after a probe
\* that succeeded neither call is issued.
C33_ProbeFailureIsAbsence ==
    /\ Issued("headBucket", "error") =>
          /\ pc = "createBucket" \/ (Len(ops) >= 2 /\ ops[2].op = "createBucket")
          /\ Issued("createBucket", "ok") =>
                (pc = "putBucketVersioning"
                 \/ (Len(ops) >= 3 /\ ops[3].op = "putBucketVersioning"))
    /\ Issued("headBucket", "ok") =>
          (Count("createBucket") = 0 /\ Count("putBucketVersioning") = 0)

\* C34 - A unit without class configuration: deploy never probes or mutates
\* the stack for a project with such a unit and returns no result; when it
\* fails at that unit, the unit's archive was uploaded and its permission,
\* catch-all route and integration were added to the template, which has no
\* function for it and is never built.
C34_UnitWithoutClass ==
    (\E k \in 1..Len(project.input) : ~ClassOf(k).found) =>
        /\ \A k \in 1..Len(ops) : ops[k].op \notin StackOps
        /\ pc \notin StackOps
        /\ outcome # "returned"
        /\ ~builder.built
        /\ (outcome = "failed" /\ error = "TypeError") =>
              LET item == project.input[idx]
              IN /\ ~ClassOf(idx).found
                 /\ OkCount("putObject") = idx
                 /\ ops[Len(ops)] = Op("putObject", "ok")
                 /\ {invokePermissionResourceName(item), routeResourceName(item),
                     integrationResourceName(item)} \subseteq Range(builder.resourceIds)
                 /\ lambdaFunctionResourceName(item) \notin DOMAIN builder.Resources

C34_Witness ==
    /\ project = ProjectNoClass
    /\ outcome = "failed"
    /\ error = "TypeError"
    /\ Issued("putObject", "ok")

Ran(step) == step \in Range(cmd.steps)
BackendSteps == {"preBackendDeploy", "deployClasses", "getCloudProvider",
                 "GenezioCloudAdapter", "SelfHostedAwsAdapter", "postBackendDeploy"}
FrontendSteps == {"preFrontendDeploy", "deployFrontend", "postFrontendDeploy"}
StepsBefore(earlier, later) ==
    \A i, j \in 1..Len(cmd.steps) :
        (cmd.steps[i] \in later /\ cmd.steps[j] \in earlier) => j < i

\* C35 - deployCommand selects the phases from its two flags: a step of the
\* backend phase runs only when frontend is not set or backend is set, a step
\* of the frontend phase only when backend is not set or frontend is set; a
\* run that reaches its end without exiting has deployed exactly the selected
\* phases (both, when the flags are equal); and every backend step, the post
\* script included, comes before every frontend step.
C35_FlagSelection ==
    LET f == cmd.options.frontend
        b == cmd.options.backend
    IN /\ (\E step \in BackendSteps : Ran(step)) => (~f \/ b)
       /\ (\E step \in FrontendSteps : Ran(step)) => (~b \/ f)
       /\ cmd.pc = "done" =>
             /\ Ran("deployClasses") <=> (~f \/ b)
             /\ Ran("deployFrontend") <=> (~b \/ f)
             /\ (f = b) => (Ran("deployClasses") /\ Ran("deployFrontend"))
       /\ StepsBefore(BackendSteps, FrontendSteps)
       /\ ((\E step \in FrontendSteps : Ran(step)) /\ (~f \/ b)) =>
             /\ Ran("deployClasses")
             /\ cmd.adapter # "none"
             /\ HasScript(cmd, "postBackendDeploy") => Ran("postBackendDeploy")

C35_Witness ==
    /\ cmd.pc = "done"
    /\ cmd.options.frontend /\ cmd.options.backend
    /\ Ran("postBackendDeploy")
    /\ Ran("preFrontendDeploy")
    /\ Ran("deployFrontend")

AdapterSteps == {"getCloudProvider", "GenezioCloudAdapter", "SelfHostedAwsAdapter"}

\* In each phase a configured pre script runs before the deploy and a
\* configured post script after it.
ScriptOrdering ==
    /\ StepsBefore({"preBackendDeploy"}, {"deployClasses"} \cup AdapterSteps)
    /\ StepsBefore({"deployClasses"} \cup AdapterSteps, {"postBackendDeploy"})
    /\ StepsBefore({"preFrontendDeploy"}, {"deployFrontend"})
    /\ StepsBefore({"deployFrontend"}, {"postFrontendDeploy"})
    /\ (Ran("deployClasses") /\ HasScript(cmd, "preBackendDeploy")) => Ran("preBackendDeploy")
    /\ (Ran("deployFrontend") /\ HasScript(cmd, "preFrontendDeploy")) => Ran("preFrontendDeploy")
    /\ Ran("postBackendDeploy") => (Ran("deployClasses") /\ cmd.adapter # "none")
    /\ Ran("postFrontendDeploy") => Ran("deployFrontend")
    /\ cmd.pc = "done" =>
          /\ (Ran("deployClasses") /\ HasScript(cmd, "postBackendDeploy")) =>
                Ran("postBackendDeploy")
          /\ (Ran("deployFrontend") /\ HasScript(cmd, "postFrontendDeploy")) =>
                Ran("postFrontendDeploy")

\* A failing pre script exits with status 1 before the deploy of its phase;
\* a failing post script exits with status 1.
ScriptFailures ==
    /\ cmd.failed = "preBackendDeploy" =>
          (cmd.exited /\ cmd.status = 1 /\ ~Ran("deployClasses"))
    /\ cmd.failed = "preFrontendDeploy" =>
          (cmd.exited /\ cmd.status = 1 /\ ~Ran("deployFrontend"))
    /\ cmd.failed \in {"postBackendDeploy", "postFrontendDeploy"} =>
          (cmd.exited /\ cmd.status = 1)

BackendDeployFailure ==
    cmd.failed = "deployClasses" =>
        (cmd.exited /\ cmd.status = 1 /\ ~Ran("postBackendDeploy"))

\* C36 (as stated) - Script ordering of deployCommand: in each phase the pre
\* script runs before the deploy and the post script after it; a failing pre
\* script exits with status 1 and the deploy of the phase never starts; a
\* failing deploy exits with status 1 and the post script never runs; a
\* failing post script exits with status 1.
C36_DeployFailureExitsOne ==
    /\ ScriptOrdering
    /\ ScriptFailures
    /\ BackendDeployFailure
    /\ cmd.failed = "deployFrontend" =>
          (cmd.exited /\ cmd.status = 1 /\ ~Ran("postFrontendDeploy"))

\* C36 (amended) - As above, except that a frontend deploy failing because
\* the configuration has no frontend entry exits with status 0; every other
\* failure of a deploy exits with status 1, and in both cases the post script
\* never runs.
C36_ScriptOrdering ==
    /\ ScriptOrdering
    /\ ScriptFailures
    /\ BackendDeployFailure
    /\ cmd.failed = "deployFrontend" =>
          /\ cmd.exited
          /\ cmd.status = (IF cmd.error = NoFrontendEntry THEN 0 ELSE 1)
          /\ (cmd.error = NoFrontendEntry) <=> ~cmd.configuration.frontend
          /\ ~Ran("postFrontendDeploy")

C36_Witness ==
    /\ cmd.failed = "deployFrontend"
    /\ cmd.error = NoFrontendEntry
    /\ cmd.exited /\ cmd.status = 0
    /\ Ran("postBackendDeploy")
    /\ Ran("preFrontendDeploy")
    /\ HasScript(cmd, "postFrontendDeploy")

ManagedProviders == {"aws", "managedAws", "genezio", Undefined}

\* C37 - Login gating and adapter choice of deployCommand: with a provider
\* other than selfHostedAws and no auth token the command exits with status 1
\* at the login check, before any script or deploy step; with selfHostedAws
\* no token is asked for; aws, managedAws, genezio and an unset provider
\* select the managed adapter, selfHostedAws the self-hosted adapter, and any
\* other provider fails at the adapter choice, with no adapter's deploy
\* called.
C37_LoginAndAdapter ==
    LET provider == cmd.configuration.cloudProvider
    IN /\ (cmd.readable /\ provider # "selfHostedAws" /\ ~cmd.authToken) =>
             /\ \A step \in BackendSteps \cup FrontendSteps : ~Ran(step)
             /\ cmd.pc \in {"getProjectConfiguration", "getAuthToken", "exited"}
             /\ cmd.exited => (cmd.status = 1 /\ cmd.failed = "getAuthToken")
       /\ (cmd.readable /\ provider # "selfHostedAws"
             /\ cmd.pc # "getProjectConfiguration") =>
             (Ran("getAuthToken") \/ cmd.pc = "getAuthToken")
       /\ provider = "selfHostedAws" =>
             (~Ran("getAuthToken") /\ cmd.pc # "getAuthToken" /\ cmd.failed # "getAuthToken")
       /\ Ran("getCloudProvider") =>
             /\ provider \in ManagedProviders =>
                   /\ cmd.adapter = "GenezioCloudAdapter"
                   /\ Ran("GenezioCloudAdapter") /\ ~Ran("SelfHostedAwsAdapter")
             /\ provider = "selfHostedAws" =>
                   /\ cmd.adapter = "SelfHostedAwsAdapter"
                   /\ Ran("SelfHostedAwsAdapter") /\ ~Ran("GenezioCloudAdapter")
             /\ provider \notin ManagedProviders \cup {"selfHostedAws"} =>
                   /\ cmd.exited /\ cmd.status = 1
                   /\ cmd.failed = "deployClasses"
                   /\ cmd.error = "Unsupported cloud provider"
       /\ provider \notin ManagedProviders \cup {"selfHostedAws"} =>
             /\ cmd.adapter = "none"
             /\ ~Ran("GenezioCloudAdapter") /\ ~Ran("SelfHostedAwsAdapter")
             /\ cmd.pc \notin {"cloudAdapter.deploy", "writeSdkToDisk"}

C37_Witness ==
    /\ cmd.configuration.cloudProvider = "selfHostedAws"
    /\ ~cmd.authToken
    /\ Ran("SelfHostedAwsAdapter")
    /\ cmd.pc = "done"

\* C38 - deployRequest sends its request only with an auth token: without
\* one it throws a user error, with no request sent and no controller
\* created; when the request has settled the controller has been aborted
\* exactly once, before the progress message is awaited, and the function
\* returns the data of the response or rethrows the error of the request.
C38_TokenGateAndAbort ==
    /\ NoToken(req.authToken) =>
          /\ req.sent = <<>>
          /\ ~req.controller.created
          /\ req.result.kind \in {"none", "thrown"}
          /\ req.result.kind = "thrown" => (req.userError /\ req.result.value = NotLoggedIn)
    /\ req.sent # <<>> =>
          /\ ~NoToken(req.authToken)
          /\ Len(req.sent) = 1
          /\ req.sent[1].Authorization = <<"Bearer ", req.authToken>>
    /\ req.controller.aborts <= 1
    /\ req.controller.aborts = 1 <=> req.response.kind # "none"
    /\ req.pc = "messagePromise" => req.controller.aborts = 1
    /\ req.result.kind = "returned" =>
          /\ req.response.kind = "response"
          /\ req.result.value = req.response.value
          /\ req.controller.aborts = 1
    /\ (req.result.kind = "thrown" /\ ~req.userError) =>
          /\ req.response.kind = "error"
          /\ req.result.value = req.response.value
          /\ req.controller.aborts = 1

C38_Witness ==
    /\ req.result.kind = "thrown"
    /\ ~req.userError
    /\ req.result.value = "Network Error"
    /\ req.controller.aborts = 1
    /\ Len(req.sent) = 1

\* C39 - Outcomes of deleteProject: without a readable auth token it throws
\* and sends no request; a request error is rethrown; a response with an
\* error message makes it throw that message; it returns true only for a
\* response whose status is 'ok', and false for every other response without
\* an error message.
C39_DeleteOutcomes ==
    /\ ~Truthy(ReadTokenOrUndefined(del.stored)) =>
          /\ del.sent = <<>>
          /\ del.result.kind \in {"none", "thrown"}
    /\ del.rejected # "" => del.result = [kind |-> "thrown", value |-> del.rejected]
    /\ del.pc = "responded" =>
          /\ Truthy(ErrorMessageOf(del.data)) =>
                del.result = [kind |-> "thrown", value |-> del.data.message]
          /\ del.result = [kind |-> "returned", value |-> "true"] =>
                (del.data.present /\ del.data.status = "ok")
          /\ (~Truthy(ErrorMessageOf(del.data))
                /\ ~(del.data.present /\ del.data.status = "ok")) =>
                del.result = [kind |-> "returned", value |-> "false"]

====
